---- MODULE Spec2Model ----
(***************************************************************************)
(* A model of the NCO-2015 occupation extractor                             *)
(* (src/scripts/nco_extractor.py): the line predicates, the per-column      *)
(* record assembler and the page/document driver.                           *)
(*                                                                          *)
(* Text is modelled as a sequence of one-character strings, so that the     *)
(* predicates and the title clean-up are computed character by character,   *)
(* as the Python string methods and regular expressions compute them.       *)
(* The character "sup2" stands for U+00B2 (superscript two): str.isdigit()  *)
(* accepts it, int() raises ValueError on it and \d does not match it.      *)
(***************************************************************************)
EXTENDS Integers, Sequences, FiniteSets, TLC

---------------------------------------------------------------------------
(* Characters and the Python string methods used by the extractor.         *)

DecDigits == {"0", "1", "2", "3", "4", "5", "6", "7", "8", "9"}

OtherDigits == {"sup2"}

UpperSeq ==
    <<"A", "B", "C", "D", "E", "F", "G", "H", "I", "J", "K", "L", "M",
      "N", "O", "P", "Q", "R", "S", "T", "U", "V", "W", "X", "Y", "Z">>

LowerSeq ==
    <<"a", "b", "c", "d", "e", "f", "g", "h", "i", "j", "k", "l", "m",
      "n", "o", "p", "q", "r", "s", "t", "u", "v", "w", "x", "y", "z">>

Upper == {UpperSeq[i] : i \in DOMAIN UpperSeq}

Lower == {LowerSeq[i] : i \in DOMAIN LowerSeq}

\* " " and "\t" stand for the characters of \s
Whitespace == {" ", "\t"}

\* s[i], or "" past either end of s
At(s, i) == IF i \in 1..Len(s) THEN s[i] ELSE ""

\* s[i..j] clipped to s, as a Python slice is
Slice(s, i, j) == SubSeq(s, IF i < 1 THEN 1 ELSE i, IF j > Len(s) THEN Len(s) ELSE j)

lower_char(c) ==
    IF c \in Upper THEN LowerSeq[CHOOSE i \in DOMAIN UpperSeq : UpperSeq[i] = c] ELSE c

\* str.lower()
RECURSIVE lower(_)
lower(s) == IF s = <<>> THEN <<>> ELSE <<lower_char(Head(s))>> \o lower(Tail(s))

RECURSIVE lstrip_chars(_, _)
lstrip_chars(s, cs) ==
    IF s # <<>> /\ Head(s) \in cs THEN lstrip_chars(Tail(s), cs) ELSE s

RECURSIVE rstrip_chars(_, _)
rstrip_chars(s, cs) ==
    IF s # <<>> /\ s[Len(s)] \in cs THEN rstrip_chars(SubSeq(s, 1, Len(s) - 1), cs) ELSE s

\* str.strip(chars)
strip_chars(s, cs) == rstrip_chars(lstrip_chars(s, cs), cs)

\* str.strip()
strip(s) == strip_chars(s, Whitespace)

\* index of the first whitespace character of s, Len(s) + 1 when there is none
FirstWhitespace(s) ==
    IF \E i \in 1..Len(s) : s[i] \in Whitespace
    THEN CHOOSE i \in 1..Len(s) :
             s[i] \in Whitespace /\ \A j \in 1..(i - 1) : s[j] \notin Whitespace
    ELSE Len(s) + 1

\* str.split(): the whitespace-delimited tokens of s
RECURSIVE split(_)
split(s) ==
    LET t == lstrip_chars(s, Whitespace)
        n == FirstWhitespace(t)
    IN  IF t = <<>> THEN <<>>
        ELSE <<SubSeq(t, 1, n - 1)>> \o split(SubSeq(t, n, Len(t)))

\* ' '.join(parts)
RECURSIVE join(_)
join(parts) ==
    IF parts = <<>> THEN <<>>
    ELSE IF Len(parts) = 1 THEN parts[1]
    ELSE parts[1] \o <<" ">> \o join(Tail(parts))

\* keyword in s
Contains(s, k) == \E i \in 1..(Len(s) - Len(k) + 1) : SubSeq(s, i, i + Len(k) - 1) = k

\* str.isdigit()
isdigit(s) == s # <<>> /\ \A i \in 1..Len(s) : s[i] \in DecDigits \cup OtherDigits

\* str.isupper(): at least one cased character and no lower-case one
isupper(s) == (\E i \in 1..Len(s) : s[i] \in Upper) /\ (\A i \in 1..Len(s) : s[i] \notin Lower)

\* \d{n} at s[i..j]
AllDec(s, i, j) == j <= Len(s) /\ \A k \in i..j : s[k] \in DecDigits

\* \s* (or a character class C*) at s[i..j]
AllIn(s, i, j, cs) == \A k \in i..j : At(s, k) \in cs

---------------------------------------------------------------------------
(* Class data of NCOExtractor.                                              *)

HEADER_KEYWORDS ==
    { <<"d", "i", "v", "i", "s", "i", "o", "n">>,
      <<"s", "u", "b", "-", "d", "i", "v", "i", "s", "i", "o", "n">>,
      <<"s", "u", "b", "d", "i", "v", "i", "s", "i", "o", "n">>,
      <<"f", "a", "m", "i", "l", "y">>,
      <<"s", "u", "b", "-", "f", "a", "m", "i", "l", "y">>,
      <<"v", "o", "l", "u", "m", "e">>,
      <<"p", "a", "r", "t">>,
      <<"s", "e", "c", "t", "i", "o", "n">>,
      <<"c", "h", "a", "p", "t", "e", "r">>,
      <<"i", "n", "d", "e", "x">>,
      <<"c", "o", "n", "t", "e", "n", "t", "s">>,
      <<"c", "l", "a", "s", "s", "i", "f", "i", "c", "a", "t", "i", "o", "n">>,
      <<"n", "a", "t", "i", "o", "n", "a", "l">>,
      <<"o", "c", "c", "u", "p", "a", "t", "i", "o", "n", "s">>,
      <<"a", "n", "n", "e", "x", "u", "r", "e">>,
      <<"g", "r", "o", "u", "p">>,
      <<"p", "r", "e", "f", "a", "c", "e">>,
      <<"f", "o", "r", "e", "w", "o", "r", "d">>,
      <<"i", "n", "t", "r", "o", "d", "u", "c", "t", "i", "o", "n">> }

METADATA_KEYWORDS ==
    { <<"q", "u", "a", "l", "i", "f", "i", "c", "a", "t", "i", "o", "n", " ", "p", "a", "c", "k">>,
      <<"q", "p", "-", "n", "o", "s">>,
      <<"q", "p", " ", "n", "o", "s">>,
      <<"n", "s", "q", "f">>,
      <<"n", "o", "s", " ", "c", "o", "d", "e">>,
      <<"p", "e", "r", "f", "o", "r", "m", "a", "n", "c", "e", " ", "c", "r", "i", "t", "e", "r", "i", "a">>,
      <<"k", "n", "o", "w", "l", "e", "d", "g", "e", " ", "a", "n", "d", " ", "u", "n", "d", "e", "r", "s", "t", "a", "n", "d", "i", "n", "g">>,
      <<"s", "e", "c", "t", "o", "r">>,
      <<"o", "c", "c", "u", "p", "a", "t", "i", "o", "n", " ", "m", "a", "p">>,
      <<"n", "v", "e", "q", "f">>,
      <<"a", "l", "s", "o", " ", "k", "n", "o", "w", "n", " ", "a", "s">> }

YEAR_CODES ==
    { <<"2", "0", "1", "5">>,
      <<"2", "0", "1", "6">>,
      <<"2", "0", "1", "7">>,
      <<"2", "0", "1", "8">>,
      <<"2", "0", "1", "9">>,
      <<"2", "0", "2", "0">>,
      <<"2", "0", "2", "1">> }

QP_PREFIXES ==
    { <<"a", "g", "r">>,
      <<"c", "o", "n">>,
      <<"i", "t", "e">>,
      <<"c", "s", "s">>,
      <<"s", "s", "c">>,
      <<"f", "f", "s">> }

K_isco == <<"i", "s", "c", "o">>

K_unit_group == <<"u", "n", "i", "t", " ", "g", "r", "o", "u", "p">>

K_sub_group == <<"s", "u", "b", "-", "g", "r", "o", "u", "p">>

K_qualification_pack == <<"q", "u", "a", "l", "i", "f", "i", "c", "a", "t", "i", "o", "n", " ", "p", "a", "c", "k">>

K_qp_nos == <<"q", "p", "-", "n", "o", "s">>

---------------------------------------------------------------------------
(* Occupation and the line predicates of NCOExtractor.                      *)

\* the leading conjuncts of Occupation.is_valid, up to nco_code.isdigit()
\* Variant of is_valid_shape without the tests that the fields are not blank.
is_valid_shape_blank_ok(occ) == Len(occ.nco_code) = 4 /\ isdigit(occ.nco_code)

is_valid_shape(occ) ==
    /\ occ.nco_code # <<>> /\ strip(occ.nco_code) # <<>>
    /\ occ.title # <<>> /\ strip(occ.title) # <<>>
    /\ occ.description # <<>> /\ strip(occ.description) # <<>>
    /\ Len(occ.nco_code) = 4
    /\ isdigit(occ.nco_code)

\* int(self.nco_code[0]) raises ValueError: the conjuncts before it hold and
\* the first character is a digit that int() does not accept
is_valid_raises(occ) == is_valid_shape(occ) /\ occ.nco_code[1] \in OtherDigits

\* Occupation.is_valid, where it returns
is_valid(occ) ==
    /\ is_valid_shape(occ)
    /\ occ.nco_code[1] \in DecDigits \ {"0"}
    /\ Len(occ.title) > 3
    /\ Len(occ.description) > 20

is_valid_nco_code(text) ==
    IF text = <<>> \/ ~isdigit(text) THEN FALSE
    ELSE IF Len(text) # 4 THEN FALSE
    ELSE IF text[1] = "0" THEN FALSE
    ELSE IF text \in YEAR_CODES THEN FALSE
    ELSE TRUE

is_header_line(line) ==
    LET line_lower == strip(lower(line))
        words == split(line)
    IN  IF Len(line_lower) < 5 THEN FALSE
        ELSE IF \E keyword \in HEADER_KEYWORDS : Contains(line_lower, keyword) THEN TRUE
        ELSE IF Len(words) <= 6 /\ isupper(line)
                /\ words # <<>> /\ ~is_valid_nco_code(words[1]) THEN TRUE
        ELSE FALSE

\* re.search(r'\d{4}\.\d{4}', line)
search_sub_code(line) ==
    \E i \in 1..Len(line) :
        AllDec(line, i, i + 3) /\ At(line, i + 4) = "." /\ AllDec(line, i + 5, i + 8)

\* re.search(r'(agr|con|ite|css|ssc|ffs)/q\d+', line_lower)
search_qp_code(line_lower) ==
    \E i \in 1..Len(line_lower) :
        /\ i + 5 <= Len(line_lower)
        /\ SubSeq(line_lower, i, i + 2) \in QP_PREFIXES
        /\ line_lower[i + 3] = "/" /\ line_lower[i + 4] = "q"
        /\ line_lower[i + 5] \in DecDigits

is_metadata_section(line) ==
    LET line_lower == strip(lower(line))
    IN  IF \E keyword \in METADATA_KEYWORDS : Contains(line_lower, keyword) THEN TRUE
        ELSE IF search_sub_code(line) THEN TRUE
        ELSE IF search_qp_code(line_lower) THEN TRUE
        ELSE FALSE

\* re.search(r'isco[-\s]*08', s)
search_isco_08(s) ==
    \E i \in 1..Len(s) : \E j \in (i + 4)..Len(s) :
        /\ Slice(s, i, i + 3) = K_isco
        /\ AllIn(s, i + 4, j - 1, {"-"} \cup Whitespace)
        /\ At(s, j) = "0" /\ At(s, j + 1) = "8"

\* re.search(key + r':?\s*\d{n}', s)
search_ref(s, key, n) ==
    \E i \in 1..Len(s) : \E colon \in {0, 1} : \E j \in (i + Len(key) + colon)..Len(s) :
        /\ Slice(s, i, i + Len(key) - 1) = key
        /\ (colon = 1 => At(s, i + Len(key)) = ":")
        /\ AllIn(s, i + Len(key) + colon, j - 1, Whitespace)
        /\ AllDec(s, j, j + n - 1)

\* some pattern of ISCO_PATTERNS is found in s
ISCO_PATTERNS(s) ==
    \/ search_isco_08(s)
    \/ search_ref(s, K_unit_group, 4)
    \/ search_ref(s, K_sub_group, 3)

should_stop_description(line) ==
    LET line_lower == strip(lower(line))
    IN  IF ISCO_PATTERNS(line_lower) THEN TRUE
        ELSE IF Contains(line_lower, K_qualification_pack) \/ Contains(line_lower, K_qp_nos)
             THEN TRUE
        ELSE FALSE

\* the two skips at the top of the assembler's loop: an empty or one-character
\* line, and a bare page number (re.match(r'^\d+$', line) and len(line) <= 3)
is_skipped_line(line) ==
    \/ line = <<>> \/ Len(line) < 2
    \/ (AllDec(line, 1, Len(line)) /\ Len(line) <= 3)

\* line.split()[0] if line.split() else ""
first_word(line) == IF split(line) # <<>> THEN split(line)[1] ELSE <<>>

---------------------------------------------------------------------------
(* The title clean-up of an occupation line.                                *)

\* start of the whitespace run that ends just before position q
RunStart(s, q) ==
    CHOOSE p \in 1..q :
        /\ \A k \in p..(q - 1) : s[k] \in Whitespace
        /\ (p = 1 \/ s[p - 1] \notin Whitespace)

Min(S) == CHOOSE x \in S : \A y \in S : x <= y

\* positions i of s where "isco" starts, whatever the case
IscoAt(s) == {i \in 1..(Len(s) - 3) : lower(SubSeq(s, i, i + 3)) = K_isco}

\* the first ISCO that starts after position q, 0 when there is none
IscoAfter(s, q) ==
    IF {a \in IscoAt(s) : a > q} = {} THEN 0 ELSE Min({a \in IscoAt(s) : a > q})

\* the first ")" at or after position i, 0 when there is none
CloseFrom(s, i) ==
    IF {b \in i..Len(s) : s[b] = ")"} = {} THEN 0 ELSE Min({b \in i..Len(s) : s[b] = ")"})

\* where \(.*?ISCO.*?\) matches in s: the positions q of a "(" that is followed
\* by an ISCO and, after that ISCO, by a ")"
ParenStarts(s) ==
    {q \in 1..Len(s) :
        s[q] = "(" /\ IscoAfter(s, q) # 0 /\ CloseFrom(s, IscoAfter(s, q) + 4) # 0}

\* re.sub(r'\s*\(.*?ISCO.*?\)', '', s, flags=re.IGNORECASE): the leftmost match
\* runs from the whitespace before the first such "(" to the first ")" after
\* the first ISCO after it; the rest of s is searched in turn
RECURSIVE sub_isco_paren(_)
sub_isco_paren(s) ==
    IF ParenStarts(s) = {} THEN s
    ELSE SubSeq(s, 1, RunStart(s, Min(ParenStarts(s))) - 1)
         \o sub_isco_paren(SubSeq(s,
                CloseFrom(s, IscoAfter(s, Min(ParenStarts(s))) + 4) + 1, Len(s)))

\* re.sub(r'\s*ISCO.*$', '', s, flags=re.IGNORECASE)
sub_isco_tail(s) ==
    IF IscoAt(s) = {} THEN s ELSE SubSeq(s, 1, RunStart(s, Min(IscoAt(s))) - 1)

\* ' '.join(line.split()[1:]).strip()
raw_title(line) == strip(join(SubSeq(split(line), 2, Len(split(line)))))

\* lines 285-291: the title of an occupation line
clean_title(line) ==
    strip_chars(sub_isco_tail(sub_isco_paren(raw_title(line))), {";", ",", ".", " "})

---------------------------------------------------------------------------
(* Bounds and the input lines.                                              *)

\* the number of lines of a column
MaxLines == 5

\* "6111 Farmer"
L_farmer == <<"6", "1", "1", "1", " ", "F", "a", "r", "m", "e", "r">>

\* "6112 Gardener"
L_gardener == <<"6", "1", "1", "2", " ", "G", "a", "r", "d", "e", "n", "e", "r">>

\* "Grows crops on farmland"
L_grows == <<"G", "r", "o", "w", "s", " ", "c", "r", "o", "p", "s", " ", "o", "n", " ", "f", "a", "r", "m", "l", "a", "n", "d">>

\* "x"
L_x == <<"x">>

\* "ISCO-08 Unit Group: 6111"
L_isco_ref == <<"I", "S", "C", "O", "-", "0", "8", " ", "U", "n", "i", "t", " ", "G", "r", "o", "u", "p", ":", " ", "6", "1", "1", "1">>

\* "6112 Group Leader"
L_group_leader == <<"6", "1", "1", "2", " ", "G", "r", "o", "u", "p", " ", "L", "e", "a", "d", "e", "r">>

\* "NSQF Level 4"
L_nsqf == <<"N", "S", "Q", "F", " ", "L", "e", "v", "e", "l", " ", "4">>

\* "6113 Sector Head"
L_sector_head == <<"6", "1", "1", "3", " ", "S", "e", "c", "t", "o", "r", " ", "H", "e", "a", "d">>

\* "12"
L_page_no == <<"1", "2">>

\* "SKILLED WORKERS"
L_upper == <<"S", "K", "I", "L", "L", "E", "D", " ", "W", "O", "R", "K", "E", "R", "S">>

\* " Tends plants "
L_tends == <<" ", "T", "e", "n", "d", "s", " ", "p", "l", "a", "n", "t", "s", " ">>

\* "6114 ab"
L_short_title == <<"6", "1", "1", "4", " ", "a", "b">>

\* "6115 Vet"
L_vet == <<"6", "1", "1", "5", " ", "V", "e", "t">>

\* "2015 Edition"
L_year == <<"2", "0", "1", "5", " ", "E", "d", "i", "t", "i", "o", "n">>

\* "<U+00B2>111 Miner"
L_sup == <<"sup2", "1", "1", "1", " ", "M", "i", "n", "e", "r">>

\* "Isco 08 code"
L_stop == <<"I", "s", "c", "o", " ", "0", "8", " ", "c", "o", "d", "e">>

\* "6116 Baker (ISCO 7512)"
L_baker == <<"6", "1", "1", "6", " ", "B", "a", "k", "e", "r", " ", "(", "I", "S", "C", "O", " ", "7", "5", "1", "2", ")">>

\* "6117 Isco 08"
L_code_isco == <<"6", "1", "1", "7", " ", "I", "s", "c", "o", " ", "0", "8">>

\* "6210 Forester"
L_forester == <<"6", "2", "1", "0", " ", "F", "o", "r", "e", "s", "t", "e", "r">>

\* a title that is a page artifact
L_page_title == <<"6", "1", "1", "8", " ", "P", "a", "g", "e", " ", "1", "2">>

\* "1<U+00B2>11 Miner"
L_miner == <<"1", "sup2", "1", "1", " ", "M", "i", "n", "e", "r">>

Lines ==
    { L_farmer,
      L_gardener,
      L_grows,
      L_x,
      L_isco_ref,
      L_group_leader,
      L_nsqf,
      L_sector_head,
      L_page_no,
      L_upper,
      L_tends,
      L_short_title,
      L_vet,
      L_year,
      L_sup,
      L_stop,
      L_baker,
      L_code_isco,
      L_forester,
      L_miner,
      L_page_title }


\* the lines as the loop sees them (line = line.strip())
StrippedLines == {strip(raw) : raw \in Lines}

\* what the loop body reads of a line
LineFacts(line) ==
    [ skipped    |-> is_skipped_line(line),
      metadata   |-> is_metadata_section(line),
      first_word |-> first_word(line),
      valid_code |-> is_valid_nco_code(first_word(line)),
      header     |-> is_header_line(line),
      stop       |-> should_stop_description(line),
      title      |-> clean_title(line) ]

\* LineFacts of every line of the model, computed once
FactsTable == {<<line, LineFacts(line)>> : line \in StrippedLines}

Facts(line) == (CHOOSE p \in FactsTable : p[1] = line)[2]

---------------------------------------------------------------------------
(* NCOExtractor.extract_occupations_from_column: the loop body as a         *)
(* function of the loop's state, the line read and the facts f of it.       *)

NoOccupation == [none |-> TRUE]

Occupation(code, title, description) ==
    [nco_code |-> code, title |-> title, description |-> description]

\* lines 234-237
\* Variant of AsmInit in which a call starts with the candidate "6210 Forester"
\* left open by an earlier call.
AsmInit_open ==
    [ occupations       |-> <<>>,
      current_occ       |-> Occupation(first_word(L_forester), raw_title(L_forester), <<>>),
      description_lines |-> <<>>,
      in_metadata       |-> FALSE,
      raised            |-> FALSE ]

AsmInit ==
    [ occupations       |-> <<>>,
      current_occ       |-> NoOccupation,
      description_lines |-> <<>>,
      in_metadata       |-> FALSE,
      raised            |-> FALSE ]

\* if current_occ.is_valid(): occupations.append(current_occ), for the
\* candidate occ with its description set
SaveAs(st, occ) ==
    IF is_valid_raises(occ) THEN [st EXCEPT !.current_occ = occ, !.raised = TRUE]
    ELSE IF is_valid(occ)
         THEN [st EXCEPT !.current_occ = occ, !.occupations = Append(@, occ)]
    ELSE [st EXCEPT !.current_occ = occ]

\* current_occ.description = ' '.join(description_lines).strip()
\* if current_occ.is_valid(): occupations.append(current_occ)
Save(st) ==
    SaveAs(st, [st.current_occ EXCEPT !.description = strip(join(st.description_lines))])

\* if current_occ and description_lines
HasOpen(st) == st.current_occ # NoOccupation /\ st.description_lines # <<>>

\* Variant of Reset that keeps the candidate and its buffer after a save.
Reset_keeping(st) == st

\* Variant of Branch without the resynchronisation skip of lines 260-267.
Branch_without_resync(st, f) ==
    IF f.skipped THEN "skip"
    ELSE IF f.metadata THEN "metadata"
    ELSE IF f.header THEN "header"
    ELSE IF f.valid_code THEN "occupation"
    ELSE IF st.current_occ # NoOccupation
         THEN IF f.stop THEN "stop" ELSE "description"
    ELSE "no_candidate"

\* Variant of Branch without the header skip of lines 269-271.
Branch_without_header(st, f) ==
    IF f.skipped THEN "skip"
    ELSE IF f.metadata THEN "metadata"
    ELSE IF st.in_metadata /\ ~f.valid_code THEN "in_metadata"
    ELSE IF f.valid_code THEN "occupation"
    ELSE IF st.current_occ # NoOccupation
         THEN IF f.stop THEN "stop" ELSE "description"
    ELSE "no_candidate"

\* current_occ = None; description_lines = [] (not reached after a raise)
Reset(st) ==
    IF st.raised THEN st
    ELSE [st EXCEPT !.current_occ = NoOccupation, !.description_lines = <<>>]

\* Variant of Branch without the stop test of lines 308-317.
Branch_without_stop(st, f) ==
    IF f.skipped THEN "skip"
    ELSE IF f.metadata THEN "metadata"
    ELSE IF st.in_metadata /\ ~f.valid_code THEN "in_metadata"
    ELSE IF f.header THEN "header"
    ELSE IF f.valid_code THEN "occupation"
    ELSE IF st.current_occ # NoOccupation THEN "description"
    ELSE "no_candidate"

\* Variant of Branch that tests the leading code before the metadata keywords.
Branch_code_before_metadata(st, f) ==
    IF f.skipped THEN "skip"
    ELSE IF f.valid_code THEN "occupation"
    ELSE IF f.metadata THEN "metadata"
    ELSE IF st.in_metadata THEN "in_metadata"
    ELSE IF f.header THEN "header"
    ELSE IF st.current_occ # NoOccupation
         THEN IF f.stop THEN "stop" ELSE "description"
    ELSE "no_candidate"

\* the branch of the loop body that a line takes, in the order of the code
Branch(st, f) ==
    IF f.skipped THEN "skip"
    ELSE IF f.metadata THEN "metadata"
    ELSE IF st.in_metadata /\ ~f.valid_code THEN "in_metadata"
    ELSE IF f.header THEN "header"
    ELSE IF f.valid_code THEN "occupation"
    ELSE IF st.current_occ # NoOccupation
         THEN IF f.stop THEN "stop" ELSE "description"
    ELSE "no_candidate"

\* lines 248-258
OnMetadata(st) ==
    IF HasOpen(st) THEN Reset(Save([st EXCEPT !.in_metadata = TRUE]))
    ELSE [st EXCEPT !.in_metadata = TRUE]

\* lines 260-267, when the line starts with a valid code
ClearMetadata(st) == [st EXCEPT !.in_metadata = FALSE]

\* lines 283-304: the new candidate, or none when the title is too short
StartNew(st, f) ==
    IF st.raised THEN st
    ELSE IF f.title = <<>> \/ Len(f.title) < 3
         THEN [st EXCEPT !.current_occ = NoOccupation, !.description_lines = <<>>]
    ELSE [st EXCEPT !.current_occ = Occupation(f.first_word, f.title, <<>>),
                    !.description_lines = <<>>]

\* lines 276-304
OnOccupation(st, f) == StartNew(IF HasOpen(st) THEN Save(st) ELSE st, f)

\* lines 314-317
EnterMetadata(st) ==
    IF st.raised THEN st
    ELSE [st EXCEPT !.current_occ = NoOccupation, !.description_lines = <<>>,
                    !.in_metadata = TRUE]

\* lines 308-317
OnStop(st) == EnterMetadata(IF st.description_lines # <<>> THEN Save(st) ELSE st)

\* lines 319-321
OnDescription(st, line, f) ==
    IF ~f.metadata /\ ~f.header
    THEN [st EXCEPT !.description_lines = Append(@, line)]
    ELSE st

\* lines 239-321: one iteration of the loop, on the stripped line
Dispatch(st, line, f, b) ==
    CASE b = "skip"         -> st
      [] b = "metadata"     -> OnMetadata(st)
      [] b = "in_metadata"  -> st
      [] b = "header"       -> ClearMetadata(st)
      [] b = "occupation"   -> OnOccupation(ClearMetadata(st), f)
      [] b = "stop"         -> OnStop(st)
      [] b = "description"  -> OnDescription(st, line, f)
      [] b = "no_candidate" -> st

StepOn(st, line, f) == Dispatch(st, line, f, Branch(st, f))

Step(st, line) == StepOn(st, line, Facts(line))

\* lines 323-327
AtEnd(st) == IF HasOpen(st) THEN Save(st) ELSE st

RECURSIVE Fold(_, _)
Fold(st, lines) ==
    IF lines = <<>> \/ st.raised THEN st ELSE Fold(Step(st, strip(Head(lines))), Tail(lines))

Returned(st) == IF st.raised THEN st ELSE AtEnd(st)

\* the whole call: the list returned, and whether the call raised instead
extract_occupations_from_column(lines) == Returned(Fold(AsmInit, lines))

---------------------------------------------------------------------------
(* Column segmentation and the pipeline around the assembler.  A page is     *)
(* its width and the words of page.extract_words(); a word has its text,    *)
(* x0 in points and top in hundredths of a point.                           *)

\* round(word['top'], 1), in tenths of a point (the catalogue has no top that
\* lies exactly between two tenths)
round1(top) == (top + 5) \div 10

\* sorted(lines_dict.keys())
RECURSIVE sorted(_)
sorted(S) == IF S = {} THEN <<>> ELSE <<Min(S)>> \o sorted(S \ {Min(S)})

\* Variant of sorted_by_x0 that leaves the words in the order of extraction.
unsorted(ws) == ws

\* sorted(lines_dict[y_pos], key=lambda w: w['x0']), a stable sort
RECURSIVE sorted_by_x0(_)
sorted_by_x0(ws) ==
    IF ws = <<>> THEN <<>>
    ELSE LET i == CHOOSE i \in DOMAIN ws :
                      \A j \in DOMAIN ws :
                          \/ ws[i].x0 < ws[j].x0
                          \/ ws[i].x0 = ws[j].x0 /\ i <= j
         IN  <<ws[i]>> \o sorted_by_x0(SubSeq(ws, 1, i - 1) \o SubSeq(ws, i + 1, Len(ws)))

\* ' '.join(w['text'] for w in words_in_line).strip()
line_text(ws) == strip(join([i \in DOMAIN ws |-> ws[i].text]))

words_to_lines(ws) ==
    LET keys == sorted({round1(ws[i].top) : i \in DOMAIN ws})
    IN  [k \in DOMAIN keys |->
            line_text(sorted_by_x0(SelectSeq(ws, LAMBDA w : round1(w.top) = keys[k])))]

\* Variant of split_into_columns that puts a word at mid_x in the left column.
split_at_or_below_mid(pg) ==
    IF pg.words = <<>> THEN << <<>>, <<>> >>
    ELSE << words_to_lines(SelectSeq(pg.words, LAMBDA w : 2 * w.x0 <= pg.width)),
            words_to_lines(SelectSeq(pg.words, LAMBDA w : 2 * w.x0 > pg.width)) >>

\* <<left_lines, right_lines>>; mid_x = page.width / 2
split_into_columns(pg) ==
    IF pg.words = <<>> THEN << <<>>, <<>> >>
    ELSE << words_to_lines(SelectSeq(pg.words, LAMBDA w : 2 * w.x0 < pg.width)),
            words_to_lines(SelectSeq(pg.words, LAMBDA w : 2 * w.x0 >= pg.width)) >>

\* pages below this number are skipped (if page_num < 5: continue)
FirstContentPage == 5

\* Variant of is_cover_page that skips no page.
is_cover_page_never(n) == FALSE

is_cover_page_through(n) == n <= FirstContentPage

is_cover_page(n) == n < FirstContentPage

\* Variant of page_occupations that takes the right column before the left.
page_occupations_right_first(pg) ==
    LET cols  == split_into_columns(pg)
        left  == extract_occupations_from_column(cols[1])
        right == extract_occupations_from_column(cols[2])
    IN  [ raised      |-> left.raised \/ right.raised,
          left_occs   |-> left.occupations,
          right_occs  |-> right.occupations,
          occupations |-> right.occupations \o left.occupations ]

\* the body of the page loop for a page that is not skipped: what it adds to
\* all_occupations, and whether a column's assembler raised
page_occupations(pg) ==
    LET cols  == split_into_columns(pg)
        left  == extract_occupations_from_column(cols[1])
        right == extract_occupations_from_column(cols[2])
    IN  [ raised      |-> left.raised \/ right.raised,
          left_occs   |-> left.occupations,
          right_occs  |-> right.occupations,
          occupations |-> left.occupations \o right.occupations ]

\* Variant of dedup_loop in which a later record of a code replaces the earlier.
RECURSIVE dedup_last_wins(_, _, _)
dedup_last_wins(occs, seen_codes, unique_occupations) ==
    IF occs = <<>> THEN unique_occupations
    ELSE dedup_last_wins(Tail(occs), seen_codes \cup {Head(occs).nco_code},
             Append(SelectSeq(unique_occupations,
                              LAMBDA o : o.nco_code # Head(occs).nco_code),
                    Head(occs)))

RECURSIVE dedup_loop(_, _, _)
dedup_loop(occs, seen_codes, unique_occupations) ==
    IF occs = <<>> THEN unique_occupations
    ELSE IF Head(occs).nco_code \notin seen_codes
         THEN dedup_loop(Tail(occs), seen_codes \cup {Head(occs).nco_code},
                         Append(unique_occupations, Head(occs)))
         ELSE dedup_loop(Tail(occs), seen_codes, unique_occupations)

deduplicate(occs) == dedup_loop(occs, {}, <<>>)

\* "bel" (\x07) stands for the characters of [\x00-\x08\x0b-\x0c\x0e-\x1f] that
\* the whitespace pass leaves in place
ControlChars == {"bel"}

\* \w
WordChars == Upper \cup Lower \cup DecDigits \cup OtherDigits \cup {"_"}

\* \b between s[i - 1] and s[i]
WordBoundary(s, i) == (At(s, i - 1) \in WordChars) # (At(s, i) \in WordChars)

\* the last index of the longest run of characters of cs that starts at s[i],
\* i - 1 when s[i] is not in cs
RunEnd(s, i, cs) ==
    CHOOSE e \in (i - 1)..Len(s) : AllIn(s, i, e, cs) /\ At(s, e + 1) \notin cs

\* re.sub(r'\s+', ' ', text)
RECURSIVE sub_spaces(_)
sub_spaces(s) ==
    IF s = <<>> THEN <<>>
    ELSE IF Head(s) \in Whitespace
         THEN <<" ">> \o sub_spaces(lstrip_chars(s, Whitespace))
         ELSE <<Head(s)>> \o sub_spaces(Tail(s))

\* re.sub(r'[\x00-\x08\x0b-\x0c\x0e-\x1f]', '', text)
sub_control(s) == SelectSeq(s, LAMBDA c : c \notin ControlChars)

K_page == <<"p", "a", "g", "e">>

K_code == <<"c", "o", "d", "e">>

K_title == <<"t", "i", "t", "l", "e">>

\* the last index of the match of \bPage\s+\d+\b (re.IGNORECASE) that starts at
\* s[i], 0 when there is none
PageArtifactEnd(s, i) ==
    LET w == i + Len(K_page)
        d == RunEnd(s, w, Whitespace) + 1
        e == RunEnd(s, d, DecDigits)
    IN  IF /\ WordBoundary(s, i)
           /\ lower(Slice(s, i, w - 1)) = K_page
           /\ d > w
           /\ e >= d
           /\ WordBoundary(s, e + 1)
        THEN e ELSE 0

\* the last index of the match of \bCode\s+\d{4}\s+Title\b (re.IGNORECASE) that
\* starts at s[i], 0 when there is none
CodeArtifactEnd(s, i) ==
    LET w == i + Len(K_code)
        d == RunEnd(s, w, Whitespace) + 1
        v == d + 4
        t == RunEnd(s, v, Whitespace) + 1
        e == t + Len(K_title) - 1
    IN  IF /\ WordBoundary(s, i)
           /\ lower(Slice(s, i, w - 1)) = K_code
           /\ d > w
           /\ AllDec(s, d, v - 1)
           /\ t > v
           /\ lower(Slice(s, t, e)) = K_title
           /\ WordBoundary(s, e + 1)
        THEN e ELSE 0

\* re.sub(r'\bPage\s+\d+\b', '', text, flags=re.IGNORECASE), from s[i] on
RECURSIVE sub_page(_, _)
sub_page(s, i) ==
    IF i > Len(s) THEN <<>>
    ELSE IF PageArtifactEnd(s, i) > 0 THEN sub_page(s, PageArtifactEnd(s, i) + 1)
    ELSE <<s[i]>> \o sub_page(s, i + 1)

\* re.sub(r'\bCode\s+\d{4}\s+Title\b', '', text, flags=re.IGNORECASE), from s[i] on
RECURSIVE sub_code(_, _)
sub_code(s, i) ==
    IF i > Len(s) THEN <<>>
    ELSE IF CodeArtifactEnd(s, i) > 0 THEN sub_code(s, CodeArtifactEnd(s, i) + 1)
    ELSE <<s[i]>> \o sub_code(s, i + 1)

clean_text(text) == strip(sub_code(sub_page(sub_control(sub_spaces(text)), 1), 1))

\* writer.writerow(['nco_code', 'title', 'description'])
CsvHeader == <<<<"n", "c", "o", "_", "c", "o", "d", "e">>, <<"t", "i", "t", "l", "e">>, <<"d", "e", "s", "c", "r", "i", "p", "t", "i", "o", "n">>>>

\* the longest document read
MaxPages == 6

\* the longest list of documents (pdf_paths): main gives the two of PDF_FILES
MaxDocs == 2

\* a page without words
P_blank == [width |-> 612, words |-> <<>>]

\* left column: "6111 Farmer" / "Grows crops on farmland"; right column:
\* "6112 Gardener" / "Tends plants" / "Grows crops on farmland"
P_a ==
    [ width |-> 612,
      words |-> <<
        [text |-> <<"F", "a", "r", "m", "e", "r">>, x0 |-> 104, top |-> 10003],
        [text |-> <<"6", "1", "1", "1">>, x0 |-> 72, top |-> 10000],
        [text |-> <<"6", "1", "1", "2">>, x0 |-> 320, top |-> 10000],
        [text |-> <<"G", "a", "r", "d", "e", "n", "e", "r">>, x0 |-> 352, top |-> 10002],
        [text |-> <<"G", "r", "o", "w", "s">>, x0 |-> 72, top |-> 11200],
        [text |-> <<"c", "r", "o", "p", "s">>, x0 |-> 108, top |-> 11200],
        [text |-> <<"o", "n">>, x0 |-> 142, top |-> 11201],
        [text |-> <<"f", "a", "r", "m", "l", "a", "n", "d">>, x0 |-> 158, top |-> 11199],
        [text |-> <<"T", "e", "n", "d", "s">>, x0 |-> 320, top |-> 11200],
        [text |-> <<"p", "l", "a", "n", "t", "s">>, x0 |-> 356, top |-> 11200],
        [text |-> <<"f", "a", "r", "m", "l", "a", "n", "d">>, x0 |-> 406, top |-> 12400],
        [text |-> <<"G", "r", "o", "w", "s">>, x0 |-> 320, top |-> 12400],
        [text |-> <<"c", "r", "o", "p", "s">>, x0 |-> 356, top |-> 12400],
        [text |-> <<"o", "n">>, x0 |-> 390, top |-> 12400] >> ]

\* left column: "6116 Baker (ISCO 7512)" / "Grows crops on farmland"; right
\* column, starting at mid_x: "6210 Forester" / "Grows crops on farmland"
P_b ==
    [ width |-> 612,
      words |-> <<
        [text |-> <<"6", "1", "1", "6">>, x0 |-> 72, top |-> 10000],
        [text |-> <<"B", "a", "k", "e", "r">>, x0 |-> 104, top |-> 10000],
        [text |-> <<"(", "I", "S", "C", "O">>, x0 |-> 140, top |-> 10000],
        [text |-> <<"7", "5", "1", "2", ")">>, x0 |-> 176, top |-> 10000],
        [text |-> <<"G", "r", "o", "w", "s">>, x0 |-> 72, top |-> 11200],
        [text |-> <<"c", "r", "o", "p", "s">>, x0 |-> 108, top |-> 11200],
        [text |-> <<"o", "n">>, x0 |-> 142, top |-> 11200],
        [text |-> <<"f", "a", "r", "m", "l", "a", "n", "d">>, x0 |-> 158, top |-> 11200],
        [text |-> <<"6", "2", "1", "0">>, x0 |-> 306, top |-> 10000],
        [text |-> <<"F", "o", "r", "e", "s", "t", "e", "r">>, x0 |-> 340, top |-> 10000],
        [text |-> <<"G", "r", "o", "w", "s">>, x0 |-> 306, top |-> 11200],
        [text |-> <<"c", "r", "o", "p", "s">>, x0 |-> 342, top |-> 11200],
        [text |-> <<"o", "n">>, x0 |-> 376, top |-> 11200],
        [text |-> <<"f", "a", "r", "m", "l", "a", "n", "d">>, x0 |-> 392, top |-> 11200] >> ]

\* left column: "Tends plants" above the first code, then "6111 Farmer" /
\* "Tends plants" / "Grows crops on farmland" (code 6111 with another text than
\* on P_a); right column: "Grows crops on farmland" and no code
P_c ==
    [ width |-> 612,
      words |-> <<
        [text |-> <<"T", "e", "n", "d", "s">>, x0 |-> 72, top |-> 9000],
        [text |-> <<"p", "l", "a", "n", "t", "s">>, x0 |-> 108, top |-> 9000],
        [text |-> <<"6", "1", "1", "1">>, x0 |-> 72, top |-> 10000],
        [text |-> <<"F", "a", "r", "m", "e", "r">>, x0 |-> 104, top |-> 10000],
        [text |-> <<"T", "e", "n", "d", "s">>, x0 |-> 72, top |-> 11200],
        [text |-> <<"p", "l", "a", "n", "t", "s">>, x0 |-> 108, top |-> 11200],
        [text |-> <<"G", "r", "o", "w", "s">>, x0 |-> 72, top |-> 12400],
        [text |-> <<"c", "r", "o", "p", "s">>, x0 |-> 108, top |-> 12400],
        [text |-> <<"o", "n">>, x0 |-> 142, top |-> 12400],
        [text |-> <<"f", "a", "r", "m", "l", "a", "n", "d">>, x0 |-> 158, top |-> 12400],
        [text |-> <<"G", "r", "o", "w", "s">>, x0 |-> 320, top |-> 9000],
        [text |-> <<"c", "r", "o", "p", "s">>, x0 |-> 356, top |-> 9000],
        [text |-> <<"o", "n">>, x0 |-> 390, top |-> 9000],
        [text |-> <<"f", "a", "r", "m", "l", "a", "n", "d">>, x0 |-> 406, top |-> 9000] >> ]

\* the pages that documents are made of
Pages == {P_a, P_b, P_c}

\* split_into_columns of every page of the catalogue
ColumnTable == {<<pg, split_into_columns(pg)>> : pg \in Pages}

\* the lines of the left (1) and of the right (2) column of the page
ColumnLines(pg) == (CHOOSE p \in ColumnTable : p[1] = pg)[2]

\* page_occupations of every page of the catalogue
PageTable == {<<pg, page_occupations(pg)>> : pg \in Pages}

PageOut(pg) == (CHOOSE p \in PageTable : p[1] = pg)[2]

\* the titles and descriptions of the records that the pages give
PageTexts ==
    UNION { {p[2].occupations[i].title : i \in DOMAIN p[2].occupations}
            \cup {p[2].occupations[i].description : i \in DOMAIN p[2].occupations} :
            p \in PageTable }

\* clean_text of every text that export_to_csv is given
CleanTable == {<<t, clean_text(t)>> : t \in PageTexts}

CleanOut(t) == (CHOOSE p \in CleanTable : p[1] = t)[2]

\* writer.writerow([occ.nco_code, self.clean_text(occ.title), self.clean_text(occ.description)])
CsvRow(occ) == <<occ.nco_code, CleanOut(occ.title), CleanOut(occ.description)>>

---------------------------------------------------------------------------
(* The vocabulary of the specification's line classifier (first match       *)
(* wins: Noise, Metadata, OccupationStart, StructuralHeader, Description),  *)
(* in which the properties below are stated.                                *)

ClassOf(f) ==
    IF f.skipped THEN "Noise"
    ELSE IF f.metadata THEN "Metadata"
    ELSE IF f.valid_code THEN "OccupationStart"
    ELSE IF f.header THEN "StructuralHeader"
    ELSE "Description"

classify(line) == ClassOf(Facts(line))

\* the sequence of the specification's finalization example
FarmerScenario == <<L_farmer, L_grows, L_gardener, L_x>>

---------------------------------------------------------------------------
(* The assembler as a state machine: one step per line of the column.       *)

VARIABLES
    pc,                 \* "loop", "done" (returned) or "raised" (ValueError)
    lineNo,             \* the number of lines read
    cur_line,           \* the loop variable line, stripped
    occupations,
    current_occ,
    description_lines,
    in_metadata,
    starts,             \* history: the number of OccupationStart lines read
    openedBy,           \* history: which OccupationStart line opened current_occ
    emittedBy,          \* history: for each record of occupations, its openedBy
    scenario,           \* history: how much of FarmerScenario the input is, or -1
    phase,              \* "idle", "pages", "extracted", "deduplicated", "raised"
    num_docs,           \* len(self.pdf_paths)
    pdf_index,          \* the position of pdf_path in self.pdf_paths
    page_num,           \* the number of the last page enumerated
    pdf_occupations,    \* all_occupations of extract_from_pdf
    all_occupations,    \* all_occupations of extract_all
    self_occupations,   \* self.occupations
    doc_pages,          \* history: the pages of the current document read so far
    column_log,         \* history: every column assembled, with its position and records
    csv_rows,           \* the rows written to the CSV file
    call,               \* a single call of a function: its name and its argument
    ret,                \* the values that call and its repetition returned
    step,               \* extract_nco.extract: "idle", "lines", "cleaning", "saving", "saved"
    num_read,           \* history: the number of lines of text read
    last_read,          \* history: the loop variable line, cleaned
    rows,
    current_code,
    current_title,
    current_desc,
    final,              \* the dict final, as the list of its values in insertion order
    out_rows            \* the rows written to OUT_FILE

asm_vars == <<pc, lineNo, cur_line, occupations, current_occ, description_lines,
              in_metadata, starts, openedBy, emittedBy, scenario>>

pipe_vars == <<phase, num_docs, pdf_index, page_num, pdf_occupations, all_occupations,
               self_occupations, doc_pages, column_log, csv_rows>>

fn_vars == <<call, ret>>

alt_vars == <<step, num_read, last_read, rows, current_code, current_title,
              current_desc, final, out_rows>>

vars == <<asm_vars, pipe_vars, fn_vars, alt_vars>>

AsmState ==
    [ occupations       |-> occupations,
      current_occ       |-> current_occ,
      description_lines |-> description_lines,
      in_metadata       |-> in_metadata,
      raised            |-> FALSE ]

\* no single function is being called
FnIdle == call = [fn |-> "none"] /\ ret = <<>>

\* None (a code or a title is never the empty string)
None == <<>>

\* extract_nco.extract is not running
AltIdle ==
    /\ step = "idle"
    /\ num_read = 0
    /\ last_read = <<>>
    /\ rows = <<>>
    /\ current_code = None
    /\ current_title = None
    /\ current_desc = <<>>
    /\ final = <<>>
    /\ out_rows = <<>>

\* no pipeline is running
PipeIdle ==
    /\ phase = "idle"
    /\ num_docs = 0
    /\ pdf_index = 0
    /\ page_num = 0
    /\ pdf_occupations = <<>>
    /\ all_occupations = <<>>
    /\ self_occupations = <<>>
    /\ doc_pages = <<>>
    /\ column_log = <<>>
    /\ csv_rows = <<>>

Init ==
    /\ PipeIdle
    /\ FnIdle
    /\ AltIdle
    /\ pc = "loop"
    /\ lineNo = 0
    /\ cur_line = <<>>
    /\ occupations = AsmInit.occupations
    /\ current_occ = AsmInit.current_occ
    /\ description_lines = AsmInit.description_lines
    /\ in_metadata = AsmInit.in_metadata
    /\ starts = 0
    /\ openedBy = 0
    /\ emittedBy = <<>>
    /\ scenario = 0

\* the program variables after the loop state st
Becomes(st) ==
    /\ occupations' = st.occupations
    /\ current_occ' = st.current_occ
    /\ description_lines' = st.description_lines
    /\ in_metadata' = st.in_metadata
    /\ emittedBy' = IF Len(st.occupations) > Len(occupations)
                    THEN Append(emittedBy, openedBy) ELSE emittedBy

\* the history variables after a line
Noted(raw, f, b, st) ==
    /\ starts' = IF ClassOf(f) = "OccupationStart" THEN starts + 1 ELSE starts
    /\ openedBy' = IF st.current_occ = NoOccupation THEN 0
                   ELSE IF b = "occupation" /\ ~st.raised THEN starts'
                   ELSE openedBy
    /\ scenario' = IF scenario >= 0 /\ scenario < Len(FarmerScenario)
                      /\ raw = FarmerScenario[scenario + 1]
                   THEN scenario + 1 ELSE -1

\* the column has a further line
More == pc = "loop" /\ lineNo < MaxLines

\* the loop reads raw, which takes branch b of the loop body
Read(raw, b) ==
    /\ \E f \in {Facts(strip(raw))} :
          /\ Branch(AsmState, f) = b
          /\ \E st \in {Dispatch(AsmState, strip(raw), f, b)} :
                /\ pc' = IF st.raised THEN "raised" ELSE "loop"
                /\ Becomes(st)
                /\ Noted(raw, f, b, st)
    /\ lineNo' = lineNo + 1
    /\ cur_line' = strip(raw)
    /\ UNCHANGED pipe_vars
    /\ UNCHANGED <<fn_vars, alt_vars>>

SkipLine == \E raw \in Lines : More /\ Read(raw, "skip")

MetadataLine == \E raw \in Lines : More /\ Read(raw, "metadata")

SkipInMetadata == \E raw \in Lines : More /\ Read(raw, "in_metadata")

SkipHeader == \E raw \in Lines : More /\ Read(raw, "header")

StartOccupation == \E raw \in Lines : More /\ Read(raw, "occupation")

StopDescription == \E raw \in Lines : More /\ Read(raw, "stop")

AppendDescription == \E raw \in Lines : More /\ Read(raw, "description")

SkipNoCandidate == \E raw \in Lines : More /\ Read(raw, "no_candidate")

\* lines 323-329
EndOfInput ==
    /\ pc = "loop"
    /\ \E st \in {AtEnd(AsmState)} :
          /\ pc' = IF st.raised THEN "raised" ELSE "done"
          /\ Becomes(st)
    /\ UNCHANGED <<lineNo, cur_line, starts, openedBy, scenario>>
    /\ UNCHANGED pipe_vars
    /\ UNCHANGED <<fn_vars, alt_vars>>

Next ==
    \/ SkipLine
    \/ MetadataLine
    \/ SkipInMetadata
    \/ SkipHeader
    \/ StartOccupation
    \/ StopDescription
    \/ AppendDescription
    \/ SkipNoCandidate
    \/ EndOfInput

Spec == Init /\ [][Next]_vars

---------------------------------------------------------------------------
(* The pipeline: extract_all over the documents, then deduplicate.          *)

PipeInit ==
    /\ phase = "pages"
    /\ num_docs \in 1..MaxDocs
    /\ pdf_index = 1
    /\ page_num = 0
    /\ pdf_occupations = <<>>
    /\ all_occupations = <<>>
    /\ self_occupations = <<>>
    /\ doc_pages = <<>>
    /\ column_log = <<>>
    /\ csv_rows = <<>>
    /\ FnIdle
    /\ AltIdle
    /\ pc = "idle"
    /\ lineNo = 0
    /\ cur_line = <<>>
    /\ occupations = <<>>
    /\ current_occ = NoOccupation
    /\ description_lines = <<>>
    /\ in_metadata = FALSE
    /\ starts = 0
    /\ openedBy = 0
    /\ emittedBy = <<>>
    /\ scenario = 0

\* the document has a further page
MorePages == phase = "pages" /\ page_num < MaxPages

\* if page_num < 5: continue
SkipCoverPage ==
    /\ MorePages
    /\ is_cover_page(page_num + 1)
    /\ \E pg \in Pages : doc_pages' = Append(doc_pages, pg)
    /\ page_num' = page_num + 1
    /\ UNCHANGED <<phase, num_docs, pdf_index, pdf_occupations, all_occupations,
                   self_occupations>>
    /\ UNCHANGED <<column_log, csv_rows>>
    /\ UNCHANGED asm_vars
    /\ UNCHANGED <<fn_vars, alt_vars>>

\* lines 349-356
ExtractPage ==
    /\ MorePages
    /\ ~is_cover_page(page_num + 1)
    /\ \E pg \in Pages :
          /\ doc_pages' = Append(doc_pages, pg)
          /\ \E out \in {PageOut(pg)} :
                /\ phase' = IF out.raised THEN "raised" ELSE "pages"
                /\ pdf_occupations' = IF out.raised THEN pdf_occupations
                                      ELSE pdf_occupations \o out.occupations
                /\ column_log' = column_log \o
                      << [pdf |-> pdf_index, page |-> page_num + 1, side |-> "left",
                          occs |-> out.left_occs],
                         [pdf |-> pdf_index, page |-> page_num + 1, side |-> "right",
                          occs |-> out.right_occs] >>
    /\ page_num' = page_num + 1
    /\ UNCHANGED <<num_docs, pdf_index, all_occupations, self_occupations>>
    /\ UNCHANGED csv_rows
    /\ UNCHANGED asm_vars
    /\ UNCHANGED <<fn_vars, alt_vars>>

\* extract_from_pdf returns, and extract_all goes on to the next document
NextPdf ==
    /\ phase = "pages"
    /\ pdf_index < num_docs
    /\ all_occupations' = all_occupations \o pdf_occupations
    /\ pdf_index' = pdf_index + 1
    /\ page_num' = 0
    /\ pdf_occupations' = <<>>
    /\ doc_pages' = <<>>
    /\ UNCHANGED <<phase, num_docs, self_occupations>>
    /\ UNCHANGED <<column_log, csv_rows>>
    /\ UNCHANGED asm_vars
    /\ UNCHANGED <<fn_vars, alt_vars>>

\* extract_from_pdf returns for the last document, and extract_all returns
LastPdf ==
    /\ phase = "pages"
    /\ pdf_index = num_docs
    /\ all_occupations' = all_occupations \o pdf_occupations
    /\ self_occupations' = all_occupations'
    /\ phase' = "extracted"
    /\ UNCHANGED <<num_docs, pdf_index, page_num, pdf_occupations, doc_pages>>
    /\ UNCHANGED <<column_log, csv_rows>>
    /\ UNCHANGED asm_vars
    /\ UNCHANGED <<fn_vars, alt_vars>>

Deduplicate ==
    /\ phase = "extracted"
    /\ self_occupations' = deduplicate(self_occupations)
    /\ phase' = "deduplicated"
    /\ UNCHANGED <<num_docs, pdf_index, page_num, pdf_occupations, all_occupations,
                   doc_pages>>
    /\ UNCHANGED <<column_log, csv_rows>>
    /\ UNCHANGED asm_vars
    /\ UNCHANGED <<fn_vars, alt_vars>>

\* export_to_csv: the header row, then one row for each record
ExportCsv ==
    /\ phase = "deduplicated"
    /\ csv_rows' = <<CsvHeader>> \o [i \in DOMAIN self_occupations |-> CsvRow(self_occupations[i])]
    /\ phase' = "exported"
    /\ UNCHANGED <<num_docs, pdf_index, page_num, pdf_occupations, all_occupations,
                   self_occupations, doc_pages, column_log>>
    /\ UNCHANGED asm_vars
    /\ UNCHANGED <<fn_vars, alt_vars>>

PipeNext ==
    \/ SkipCoverPage
    \/ ExtractPage
    \/ NextPdf
    \/ LastPdf
    \/ Deduplicate
    \/ ExportCsv

PipeSpec == PipeInit /\ [][PipeNext]_vars

---------------------------------------------------------------------------
(* Single calls of the functions of the program, on arguments drawn from    *)
(* bounded sets.                                                            *)

\* no column is being assembled
AsmIdle ==
    /\ pc = "idle"
    /\ lineNo = 0
    /\ cur_line = <<>>
    /\ occupations = <<>>
    /\ current_occ = NoOccupation
    /\ description_lines = <<>>
    /\ in_metadata = FALSE
    /\ starts = 0
    /\ openedBy = 0
    /\ emittedBy = <<>>
    /\ scenario = 0

\* the sequences over S of length at most n
SeqsUpTo(S, n) == UNION {[1..k -> S] : k \in 0..n}

Calling(name) == call.fn = name /\ ret = <<>>

Called(name) == call.fn = name /\ ret # <<>>

\* the longest list given to deduplicate
MaxRecords == 3

\* "Tends plants"
D_tends == strip(L_tends)

\* records with two codes, each with two texts
DedupRecords ==
    {Occupation(first_word(raw), raw_title(raw), d) :
        raw \in {L_farmer, L_gardener}, d \in {L_grows, D_tends}}

DedupCalls ==
    {[fn |-> "deduplicate", arg |-> occs] : occs \in SeqsUpTo(DedupRecords, MaxRecords)}

\* self.occupations = arg; deduplicate()
CallDeduplicate ==
    /\ Calling("deduplicate")
    /\ ret' = <<deduplicate(call.arg)>>
    /\ UNCHANGED <<call, asm_vars, pipe_vars, alt_vars>>

\* deduplicate() once more, on the list the first call left in self.occupations
CallDeduplicateAgain ==
    /\ call.fn = "deduplicate"
    /\ Len(ret) = 1
    /\ ret' = Append(ret, deduplicate(ret[1]))
    /\ UNCHANGED <<call, asm_vars, pipe_vars, alt_vars>>

\* the longest text given to clean_text, in tokens
MaxTokens == 5

\* concatenation of the texts of parts
RECURSIVE Flatten(_)
Flatten(parts) == IF parts = <<>> THEN <<>> ELSE Head(parts) \o Flatten(Tail(parts))

\* "Page 12"
T_page == <<"P", "a", "g", "e", " ", "1", "2">>

\* "Code 6111 Title"
T_code == <<"C", "o", "d", "e", " ", "6", "1", "1", "1", " ", "T", "i", "t", "l", "e">>

\* a letter, a blank, a tab, a control character and the two artifacts
CleanTokens == {<<"a">>, <<" ">>, <<"\t">>, <<"bel">>, T_page, T_code}

CleanCalls ==
    {[fn |-> "clean_text", arg |-> Flatten(ts)] : ts \in SeqsUpTo(CleanTokens, MaxTokens)}

\* clean_text(arg)
CallCleanText ==
    /\ Calling("clean_text")
    /\ ret' = <<clean_text(call.arg)>>
    /\ UNCHANGED <<call, asm_vars, pipe_vars, alt_vars>>

\* clean_text of the text that the first call returned
CallCleanTextAgain ==
    /\ call.fn = "clean_text"
    /\ Len(ret) = 1
    /\ ret' = Append(ret, clean_text(ret[1]))
    /\ UNCHANGED <<call, asm_vars, pipe_vars, alt_vars>>

\* the most words on a page or in a column
MaxWords == 3

\* words just left of mid_x and at mid_x, on two lines
PageWords ==
    {[text |-> t, x0 |-> x, top |-> y] :
        t \in {<<"a">>, <<"b">>}, x \in {305, 306}, y \in {10000, 10010}}

SplitCalls ==
    {[fn |-> "split_into_columns", arg |-> [width |-> 612, words |-> ws]] :
        ws \in SeqsUpTo(PageWords, MaxWords)}

\* words of one column: two of them round to the same tenth, the third does not
ColumnWords ==
    {[text |-> t, x0 |-> x, top |-> y] :
        t \in {<<"a">>, <<"b">>}, x \in {72, 100}, y \in {10000, 10004, 10010}}

LinesCalls ==
    {[fn |-> "words_to_lines", arg |-> ws] : ws \in SeqsUpTo(ColumnWords, MaxWords)}

\* split_into_columns(page)
CallSplitIntoColumns ==
    /\ Calling("split_into_columns")
    /\ ret' = <<split_into_columns(call.arg)>>
    /\ UNCHANGED <<call, asm_vars, pipe_vars, alt_vars>>

\* _words_to_lines(words)
CallWordsToLines ==
    /\ Calling("words_to_lines")
    /\ ret' = <<words_to_lines(call.arg)>>
    /\ UNCHANGED <<call, asm_vars, pipe_vars, alt_vars>>

\* the longest text given to is_valid_nco_code
MaxCodeLen == 5

\* digits, a letter and a digit that is not a decimal digit
CodeChars == {"0", "1", "2", "6", "a", "sup2"}

\* the examples of the specification: "6111", "0111", "2015", "611", "61a1"
CodeExamples == {<<"6", "1", "1", "1">>, <<"0", "1", "1", "1">>, <<"2", "0", "1", "5">>, <<"6", "1", "1">>, <<"6", "1", "a", "1">>}

CodeCalls ==
    {[fn |-> "is_valid_nco_code", arg |-> t] :
        t \in SeqsUpTo(CodeChars, MaxCodeLen) \cup YEAR_CODES \cup CodeExamples}

\* is_valid_nco_code(text)
CallIsValidNcoCode ==
    /\ Calling("is_valid_nco_code")
    /\ ret' = <<is_valid_nco_code(call.arg)>>
    /\ UNCHANGED <<call, asm_vars, pipe_vars, alt_vars>>

\* codes of length 3, 4 and 5, with a leading zero, a letter, a digit that is
\* not a decimal digit, four blanks and the empty code
ValidityCodes == {<<"6", "1", "1", "1">>, <<"0", "1", "1", "1">>, <<"6", "1", "1">>, <<"6", "1", "1", "1", "1">>, <<"6", "1", "a", "1">>, <<"1", "sup2", "1", "1">>, <<"sup2", "1", "1", "1">>, <<" ", " ", " ", " ">>, <<>>}

\* titles of length 0, 3, 4 and 6, of blanks only or not
ValidityTitles == {<<>>, <<"a", "b", "c">>, <<"a", "b", "c", "d">>, <<" ", " ", " ", " ">>, <<" ", "a", "b", " ">>, <<" ", " ", " ", " ", " ", " ">>}

\* descriptions of length 0, 20 and 21, of blanks only or not
ValidityDescriptions ==
    { <<>>,
      <<"x", "x", "x", "x", "x", "x", "x", "x", "x", "x", "x", "x", "x", "x", "x", "x", "x", "x", "x", "x">>,
      <<"x", "x", "x", "x", "x", "x", "x", "x", "x", "x", "x", "x", "x", "x", "x", "x", "x", "x", "x", "x", "x">>,
      <<" ", " ", " ", " ", " ", " ", " ", " ", " ", " ", " ", " ", " ", " ", " ", " ", " ", " ", " ", " ", " ">>,
      <<" ", "x", "x", "x", "x", "x", "x", "x", "x", "x", "x", "x", "x", "x", "x", "x", "x", "x", "x", "x", "x">> }

ValidityCalls ==
    {[fn |-> "is_valid", arg |-> Occupation(c, t, d)] :
        c \in ValidityCodes, t \in ValidityTitles, d \in ValidityDescriptions}

\* Occupation(...).is_valid(): "True", "False", or "ValueError" when int() raises
CallIsValid ==
    /\ Calling("is_valid")
    /\ ret' = IF is_valid_raises(call.arg) THEN <<"ValueError">>
              ELSE IF is_valid(call.arg) THEN <<"True">> ELSE <<"False">>
    /\ UNCHANGED <<call, asm_vars, pipe_vars, alt_vars>>

\* columns whose records are given to export_to_csv
ExportColumns ==
    { <<L_farmer, L_grows>>,
      <<L_page_title, L_grows>>,
      <<L_gardener, L_tends, L_grows>> }

\* the records that extract_occupations_from_column returns for these columns
ExportRecords ==
    UNION { {extract_occupations_from_column(col).occupations[i] :
                i \in DOMAIN extract_occupations_from_column(col).occupations} :
            col \in ExportColumns }

\* self.occupations after extract_all and deduplicate
ExportCalls ==
    {[fn |-> "export_to_csv", arg |-> deduplicate(occs)] :
        occs \in SeqsUpTo(ExportRecords, MaxRecords)}

\* export_to_csv: the rows written, the header row first
CallExportToCsv ==
    /\ Calling("export_to_csv")
    /\ ret' = << <<CsvHeader>> \o
                 [i \in DOMAIN call.arg |->
                     <<call.arg[i].nco_code, clean_text(call.arg[i].title),
                       clean_text(call.arg[i].description)>>] >>
    /\ UNCHANGED <<call, asm_vars, pipe_vars, alt_vars>>

FnInit ==
    /\ AsmIdle
    /\ PipeIdle
    /\ AltIdle
    /\ ret = <<>>
    /\ \/ call \in DedupCalls
       \/ call \in CleanCalls
       \/ call \in SplitCalls
       \/ call \in LinesCalls
       \/ call \in CodeCalls
       \/ call \in ValidityCalls
       \/ call \in ExportCalls

FnNext ==
    \/ CallDeduplicate
    \/ CallDeduplicateAgain
    \/ CallCleanText
    \/ CallCleanTextAgain
    \/ CallSplitIntoColumns
    \/ CallWordsToLines
    \/ CallIsValidNcoCode
    \/ CallIsValid
    \/ CallExportToCsv

FnSpec == FnInit /\ [][FnNext]_vars

---------------------------------------------------------------------------
(* The alternate script, extract_nco.extract.  Its candidate (current_code, *)
(* current_title, current_desc) is kept across pages and documents, so the  *)
(* input is the lines of all pages of all documents, one after the other.   *)

\* re.sub(r"\s+", " ", text), one whitespace run at a time
RECURSIVE sub_whitespace(_)
sub_whitespace(text) ==
    IF \A i \in DOMAIN text : text[i] \notin Whitespace THEN text
    ELSE LET p == FirstWhitespace(text)
         IN  SubSeq(text, 1, p - 1) \o <<" ">>
                 \o sub_whitespace(lstrip_chars(SubSeq(text, p, Len(text)), Whitespace))

\* re.sub(r"\s+", " ", line).strip()
clean(line) == strip(sub_whitespace(line))

Letters == Upper \cup Lower

\* [A-Za-z ,&()/\-]
HeaderTitleChars == Letters \cup {" ", ",", "&", "(", ")", "/", "-"}

\* where group 2 of HEADER_RE starts in line, 0 when HEADER_RE does not match:
\* ^([1-9][0-9]{3})\s{1,}([A-Za-z][A-Za-z ,&()/\-]+)$
HeaderTitleAt(line) ==
    IF /\ Len(line) >= 7
       /\ line[1] \in DecDigits \ {"0"}
       /\ AllDec(line, 2, 4)
       /\ line[5] \in Whitespace
       /\ RunEnd(line, 5, Whitespace) + 2 <= Len(line)
       /\ line[RunEnd(line, 5, Whitespace) + 1] \in Letters
       /\ AllIn(line, RunEnd(line, 5, Whitespace) + 2, Len(line), HeaderTitleChars)
    THEN RunEnd(line, 5, Whitespace) + 1
    ELSE 0

\* HEADER_RE.match(line), as a truth value
HEADER_RE(line) == HeaderTitleAt(line) # 0

\* m.groups()
groups(line) == <<SubSeq(line, 1, 4), SubSeq(line, HeaderTitleAt(line), Len(line))>>

\* int(code) of a text of digits 0-9
RECURSIVE int(_)
int(code) ==
    IF code = <<>> THEN 0
    ELSE 10 * int(SubSeq(code, 1, Len(code) - 1))
         + (CHOOSE d \in 0..9 :
                <<"0", "1", "2", "3", "4", "5", "6", "7", "8", "9">>[d + 1] = code[Len(code)])

\* if int(code) < 1111 or int(code) > 9629
rejected(code) == int(code) < 1111 \/ int(code) > 9629

\* re.sub(r"\d{4}\.\d+", "", desc)
\* the positions of desc where \d{4}\.\d+ matches
SubcodeAt(desc) ==
    {i \in DOMAIN desc :
        AllDec(desc, i, i + 3) /\ At(desc, i + 4) = "." /\ At(desc, i + 5) \in DecDigits}

\* re.sub(r"\d{4}\.\d+", "", desc), one match at a time
RECURSIVE sub_subcodes(_)
sub_subcodes(desc) ==
    IF SubcodeAt(desc) = {} THEN desc
    ELSE LET p == Min(SubcodeAt(desc))
         IN  SubSeq(desc, 1, p - 1)
                 \o sub_subcodes(SubSeq(desc, RunEnd(desc, p + 5, DecDigits) + 1, Len(desc)))

\* lines 81-82
clean_desc(desc) == strip(sub_whitespace(sub_subcodes(desc)))

\* if len(desc) < 30
junk(desc) == Len(desc) < 30

\* Variant of cleaning in which a later row of a code replaces the earlier.
RECURSIVE cleaning_last_wins(_, _)
cleaning_last_wins(rs, fin) ==
    IF rs = <<>> THEN fin
    ELSE LET code == Head(rs)[1]
             desc == clean_desc(Head(rs)[3])
         IN  IF junk(desc) THEN cleaning_last_wins(Tail(rs), fin)
             ELSE cleaning_last_wins(Tail(rs),
                      Append(SelectSeq(fin, LAMBDA v : v[1] # code),
                             <<code, Head(rs)[2], desc>>))

\* lines 79-88: the loop over rows, from the dict fin
RECURSIVE cleaning(_, _)
cleaning(rs, fin) ==
    IF rs = <<>> THEN fin
    ELSE LET code == Head(rs)[1]
             desc == clean_desc(Head(rs)[3])
         IN  IF junk(desc) THEN cleaning(Tail(rs), fin)
             ELSE IF \A k \in DOMAIN fin : fin[k][1] # code
                  THEN cleaning(Tail(rs), Append(fin, <<code, Head(rs)[2], desc>>))
                  ELSE cleaning(Tail(rs), fin)

\* a < b for two texts of digits 0-9, as Python compares strings
StrLess(a, b) ==
    \/ Len(a) < Len(b) /\ SubSeq(b, 1, Len(a)) = a
    \/ \E i \in 1..Len(a) :
          /\ i <= Len(b)
          /\ SubSeq(a, 1, i - 1) = SubSeq(b, 1, i - 1)
          /\ int(<<a[i]>>) < int(<<b[i]>>)

\* sorted(final)
RECURSIVE sorted_keys(_)
sorted_keys(fin) ==
    IF fin = <<>> THEN <<>>
    ELSE LET i == CHOOSE i \in DOMAIN fin :
                      \A j \in DOMAIN fin : j # i => StrLess(fin[i][1], fin[j][1])
         IN  <<fin[i][1]>> \o sorted_keys(SubSeq(fin, 1, i - 1) \o SubSeq(fin, i + 1, Len(fin)))

\* final[k]
ValueOf(fin, k) == fin[CHOOSE i \in DOMAIN fin : fin[i][1] = k]

\* the longest text read
MaxTextLines == 5

A_farmer == <<"6", "1", "1", "1", " ", "F", "a", "r", "m", "e", "r">>

\* "6111  Crop \tGrower": the code of A_farmer with another title
A_grower == <<"6", "1", "1", "1", " ", " ", "C", "r", "o", "p", " ", "\t", "G", "r", "o", "w", "e", "r">>

A_legislator == <<"1", "1", "1", "1", " ", "L", "e", "g", "i", "s", "l", "a", "t", "o", "r">>

\* a code below 1111
A_official == <<"1", "1", "1", "0", " ", "S", "e", "n", "i", "o", "r", " ", "O", "f", "f", "i", "c", "i", "a", "l">>

\* a code above 9629
A_helper == <<"9", "6", "3", "0", " ", "H", "e", "l", "p", "e", "r">>

\* 40 characters
A_grows == <<"G", "r", "o", "w", "s", " ", "c", "r", "o", "p", "s", " ", "o", "n", " ", "f", "a", "r", "m", "l", "a", "n", "d", " ", "u", "s", "i", "n", "g", " ", "h", "a", "n", "d", " ", "t", "o", "o", "l", "s">>

\* 12 characters
A_tends == <<"T", "e", "n", "d", "s", " ", "p", "l", "a", "n", "t", "s">>

\* 32 characters, 22 of them left by the cleaning
A_subcode == <<"6", "1", "1", "1", ".", "0", "1", "0", "0", " ", "T", "e", "n", "d", "s", " ", "p", "l", "a", "n", "t", "s", " ", "a", "n", "d", " ", "c", "r", "o", "p", "s">>

A_blank == <<" ", "\t">>

TextLines ==
    {A_farmer, A_grower, A_legislator, A_official, A_helper, A_grows, A_tends,
     A_subcode, A_blank}

\* clean of every line of the catalogue
CleanLineTable == {<<raw, clean(raw)>> : raw \in TextLines}

CleanLine(raw) == (CHOOSE p \in CleanLineTable : p[1] = raw)[2]

AltInit ==
    /\ AsmIdle
    /\ PipeIdle
    /\ FnIdle
    /\ step = "lines"
    /\ num_read = 0
    /\ last_read = <<>>
    /\ rows = <<>>
    /\ current_code = None
    /\ current_title = None
    /\ current_desc = <<>>
    /\ final = <<>>
    /\ out_rows = <<>>

\* lines 50-55 and 75-76: rows after the candidate is saved, if it has lines
Saved ==
    IF current_code # None /\ current_desc # <<>>
    THEN Append(rows, <<current_code, current_title, join(current_desc)>>)
    ELSE rows

\* the loop reads raw
ReadLine(raw) ==
    /\ step = "lines"
    /\ num_read < MaxTextLines
    /\ num_read' = num_read + 1
    /\ last_read' = CleanLine(raw)
    /\ UNCHANGED <<step, final, out_rows>>
    /\ UNCHANGED <<asm_vars, pipe_vars, fn_vars>>

\* if not line: continue
BlankLine ==
    \E raw \in TextLines :
        /\ ReadLine(raw)
        /\ CleanLine(raw) = <<>>
        /\ UNCHANGED <<rows, current_code, current_title, current_desc>>

\* lines 47-63: a header whose code is rejected
RejectedHeader ==
    \E raw \in TextLines :
        /\ ReadLine(raw)
        /\ CleanLine(raw) # <<>>
        /\ HEADER_RE(CleanLine(raw))
        /\ rejected(groups(CleanLine(raw))[1])
        /\ rows' = Saved
        /\ current_code' = None
        /\ current_desc' = <<>>
        /\ UNCHANGED current_title

\* lines 47-58 and 65-68: a header that starts a new occupation
NewOccupation ==
    \E raw \in TextLines :
        /\ ReadLine(raw)
        /\ CleanLine(raw) # <<>>
        /\ HEADER_RE(CleanLine(raw))
        /\ ~rejected(groups(CleanLine(raw))[1])
        /\ rows' = Saved
        /\ current_code' = groups(CleanLine(raw))[1]
        /\ current_title' = strip(groups(CleanLine(raw))[2])
        /\ current_desc' = <<>>

\* lines 71-72
DescriptionLine ==
    \E raw \in TextLines :
        /\ ReadLine(raw)
        /\ CleanLine(raw) # <<>>
        /\ ~HEADER_RE(CleanLine(raw))
        /\ current_desc' = IF current_code # None
                           THEN Append(current_desc, CleanLine(raw)) ELSE current_desc
        /\ UNCHANGED <<rows, current_code, current_title>>

\* lines 75-76, after the last line of the last document
FlushLast ==
    /\ step = "lines"
    /\ rows' = Saved
    /\ step' = "cleaning"
    /\ UNCHANGED <<num_read, last_read, current_code, current_title, current_desc,
                   final, out_rows>>
    /\ UNCHANGED <<asm_vars, pipe_vars, fn_vars>>

\* lines 79-88
Cleaning ==
    /\ step = "cleaning"
    /\ final' = cleaning(rows, <<>>)
    /\ step' = "saving"
    /\ UNCHANGED <<num_read, last_read, rows, current_code, current_title,
                   current_desc, out_rows>>
    /\ UNCHANGED <<asm_vars, pipe_vars, fn_vars>>

\* lines 91-95
Save_csv ==
    /\ step = "saving"
    /\ \E keys \in {sorted_keys(final)} :
          out_rows' = <<CsvHeader>> \o [i \in DOMAIN keys |-> ValueOf(final, keys[i])]
    /\ step' = "saved"
    /\ UNCHANGED <<num_read, last_read, rows, current_code, current_title,
                   current_desc, final>>
    /\ UNCHANGED <<asm_vars, pipe_vars, fn_vars>>

AltNext ==
    \/ BlankLine
    \/ RejectedHeader
    \/ NewOccupation
    \/ DescriptionLine
    \/ FlushLast
    \/ Cleaning
    \/ Save_csv

AltSpec == AltInit /\ [][AltNext]_vars

---------------------------------------------------------------------------
(* Properties of the record assembler.                                      *)

\* a step of the loop: one more line has been read, and it is cur_line'
ReadsLine == lineNo' = lineNo + 1

\* the open candidate as finalization would store it
Candidate ==
    [current_occ EXCEPT !.description = strip(join(description_lines))]

\* what finalizing the open candidate appends to occupations
Finalized ==
    IF HasOpen(AsmState) /\ is_valid(Candidate)
    THEN Append(occupations, Candidate) ELSE occupations

\* C1: whenever a candidate is open and the line read satisfies the stop
\* predicate and is neither Noise nor Metadata nor led by a valid code (such as
\* "ISCO-08 Unit Group: 6111"), the step finalizes the candidate if its buffer
\* is non-empty, leaves no candidate open and sets in_metadata.
C1_StopEndsCandidate ==
    [][ ( /\ ReadsLine
          /\ current_occ # NoOccupation
          /\ Facts(cur_line').stop
          /\ ClassOf(Facts(cur_line')) \in {"StructuralHeader", "Description"}
          /\ pc' # "raised" )
        => ( /\ occupations' = Finalized
             /\ current_occ' = NoOccupation
             /\ description_lines' = <<>>
             /\ in_metadata' = TRUE ) ]_vars

\* C2: every line that is neither Noise nor Metadata and whose first token is
\* a valid code is handled as OccupationStart, whatever structural keyword it
\* contains: the candidate before it is closed and the new candidate, if any,
\* carries the line's code.
C2_CodeLineStartsOccupation ==
    [][ ( /\ ReadsLine
          /\ ClassOf(Facts(cur_line')) = "OccupationStart"
          /\ pc' # "raised" )
        => ( /\ description_lines' = <<>>
             /\ current_occ' # NoOccupation
                   => current_occ'.nco_code = Facts(cur_line').first_word ) ]_vars

\* C4: in every state, in_metadata implies that no candidate is open; and
\* right after a Metadata line the candidate is none, the buffer is empty and
\* in_metadata is set.
C4_MetadataClosesCandidate ==
    pc = "loop" =>
        /\ in_metadata => current_occ = NoOccupation
        /\ (lineNo > 0 /\ ClassOf(Facts(cur_line)) = "Metadata")
              => (current_occ = NoOccupation /\ description_lines = <<>> /\ in_metadata)

\* C5: every record of occupations satisfies is_valid, and the assembler never
\* raises: an invalid candidate is dropped silently.
C5_OnlyValidNoError ==
    /\ pc # "raised"
    /\ \A i \in 1..Len(occupations) : is_valid(occupations[i])

\* the number of records of occupations that candidate id produced
TimesEmitted(id) == Cardinality({i \in 1..Len(emittedBy) : emittedBy[i] = id})

\* C6: every candidate is appended to occupations at most once; at end of
\* input the open candidate with a non-empty buffer is appended exactly once
\* (if it is valid); there are never more records than OccupationStart lines;
\* and FarmerScenario yields exactly the record 6111.
C6_FinalizedAtMostOnce ==
    /\ \A id \in 1..MaxLines + 1 : TimesEmitted(id) <= 1
    /\ TimesEmitted(0) = 0
    /\ Len(emittedBy) = Len(occupations)
    /\ Len(occupations) <= starts
    /\ (pc = "done" /\ HasOpen(AsmState))
          => TimesEmitted(openedBy) = (IF is_valid(Candidate) THEN 1 ELSE 0)
    /\ (pc = "done" /\ scenario = Len(FarmerScenario))
          => occupations = <<Occupation(first_word(L_farmer), raw_title(L_farmer), L_grows)>>

\* C6 witness: FarmerScenario was the whole input and the call has returned.
C6_Witness == pc = "done" /\ scenario = Len(FarmerScenario) /\ Len(occupations) = 1

\* C7: while in_metadata is set, a line whose leading token is not a valid code
\* changes neither the candidate nor the buffer nor the output and leaves
\* in_metadata set; in_metadata is cleared only by a line whose leading token
\* is a valid code.
C7_ResyncSkips ==
    /\ [][ (ReadsLine /\ in_metadata /\ ~Facts(cur_line').valid_code)
           => ( /\ UNCHANGED <<current_occ, description_lines, occupations>>
                /\ in_metadata' /\ pc' = "loop" ) ]_vars
    /\ [][ (in_metadata /\ ~in_metadata')
           => (ReadsLine /\ Facts(cur_line').valid_code) ]_vars

\* C7 witness: a plain description line was read, and skipped, in resync mode
\* while a candidate was still open.
C7_Witness ==
    /\ pc = "loop" /\ in_metadata /\ current_occ # NoOccupation
    /\ ClassOf(Facts(cur_line)) = "Description" /\ ~Facts(cur_line).stop

\* C8: in resync mode, the next line whose leading token is a valid code and
\* whose title is usable starts a fresh candidate with that code and an empty
\* buffer.
C8_ResyncStartsFresh ==
    [][ ( /\ ReadsLine
          /\ in_metadata
          /\ ClassOf(Facts(cur_line')) = "OccupationStart"
          /\ Len(Facts(cur_line').title) >= 3
          /\ pc' # "raised" )
        => ( /\ current_occ' = Occupation(Facts(cur_line').first_word,
                                          Facts(cur_line').title, <<>>)
             /\ description_lines' = <<>>
             /\ ~in_metadata' ) ]_vars

C20_MetadataBeforeCode ==
    [][ ( /\ ReadsLine
          /\ ClassOf(Facts(cur_line')) = "Metadata"
          /\ Facts(cur_line').valid_code )
        => ( /\ occupations' = Finalized
             /\ in_metadata' = TRUE
             /\ openedBy' \in {0, openedBy}
             /\ current_occ' # NoOccupation
                   => /\ current_occ # NoOccupation
                      /\ current_occ'.nco_code = current_occ.nco_code
                      /\ current_occ'.title = current_occ.title
             /\ (HasOpen(AsmState) /\ pc' = "loop")
                   => (current_occ' = NoOccupation /\ description_lines' = <<>>) ) ]_vars

\* C20 witness: "6113 Sector Head" was read while the candidate 6111 had a
\* non-empty buffer; the candidate was appended, none is open, in_metadata is set.
C20_Witness ==
    /\ pc = "loop" /\ lineNo > 0
    /\ cur_line = strip(L_sector_head)
    /\ Facts(cur_line).valid_code /\ ClassOf(Facts(cur_line)) = "Metadata"
    /\ in_metadata /\ current_occ = NoOccupation
    /\ occupations # <<>>
    /\ occupations[Len(occupations)].nco_code = first_word(L_farmer)

\* C10: an OccupationStart line first finalizes the open candidate (only if
\* its buffer is non-empty, only if valid), then starts a candidate with the
\* line's code and an empty buffer, or none when the cleaned title is shorter
\* than 3; a candidate with an empty buffer is never emitted.
C10_StartFinalizesThenOpens ==
    [][ ( /\ ReadsLine
          /\ ClassOf(Facts(cur_line')) = "OccupationStart"
          /\ pc' # "raised" )
        => ( /\ occupations' = Finalized
             /\ description_lines' = <<>>
             /\ current_occ' = IF Len(Facts(cur_line').title) < 3 THEN NoOccupation
                               ELSE Occupation(Facts(cur_line').first_word,
                                               Facts(cur_line').title, <<>>) ) ]_vars

\* a plain Description line: not Noise, not Metadata, not led by a valid code,
\* not a StructuralHeader, and not a line that stops a description
PlainDescription(f) == ClassOf(f) = "Description" /\ ~f.stop

\* C22: the description of every emitted record is exactly the single-space
\* join, in input order, of the lines appended while its candidate was open.
\* The buffer grows only by the line just read, only while a candidate is open
\* and only by a plain Description line; it is emptied whenever a candidate is
\* opened or closed; and a record is emitted only as the open candidate with
\* the join of the buffer, so every line of it was read after the candidate's
\* OccupationStart line and before the event that finalized it.
C22_DescriptionIsJoinOfPlainLines ==
    /\ [](description_lines # <<>> => (current_occ # NoOccupation /\ openedBy # 0))
    /\ [][ (ReadsLine /\ description_lines' # description_lines)
             => \/ description_lines' = <<>>
                \/ /\ description_lines' = Append(description_lines, cur_line')
                   /\ openedBy # 0 /\ openedBy' = openedBy
                   /\ PlainDescription(Facts(cur_line')) ]_vars
    /\ [][ openedBy' # openedBy => description_lines' = <<>> ]_vars
    /\ [][ occupations' # occupations
             => /\ description_lines # <<>>
                /\ occupations' = Append(occupations,
                                      [current_occ EXCEPT !.description = join(description_lines)])
                /\ emittedBy' = Append(emittedBy, openedBy) ]_vars

\* C22 witness: the candidate 6111 received two lines, "Tends plants" and
\* "Grows crops on farmland", and was emitted with their join when the next
\* occupation line was read.
C22_Witness ==
    /\ pc = "loop"
    /\ Len(occupations) = 1
    /\ occupations[1].nco_code = first_word(L_farmer)
    /\ occupations[1].description = join(<<strip(L_tends), L_grows>>)
    /\ ClassOf(Facts(cur_line)) = "OccupationStart"
    /\ emittedBy = <<1>>

---------------------------------------------------------------------------
(* Properties of the pipeline.                                              *)

\* the two pages of the end-to-end scenario, and the codes of their four blocks
FourBlocks == <<P_a, P_b>>

FourCodes == {first_word(L_farmer), first_word(L_gardener),
              first_word(L_baker), first_word(L_forester)}

\* the run was over one document and deduplicate has returned
OneDocumentDone == phase = "deduplicated" /\ num_docs = 1

\* the result is exactly four valid records with the four codes
FourRecords ==
    /\ Len(self_occupations) = Cardinality(FourCodes)
    /\ {self_occupations[i].nco_code : i \in DOMAIN self_occupations} = FourCodes
    /\ \A i \in DOMAIN self_occupations : is_valid(self_occupations[i])

---------------------------------------------------------------------------
(* Properties of single functions.                                          *)

\* the positions of occs that hold the first record of their code
FirstSeen(occs) ==
    {i \in DOMAIN occs : \A j \in 1..(i - 1) : occs[j].nco_code # occs[i].nco_code}

\* the subsequence of occs at the positions I
RECURSIVE Pick(_, _)
Pick(occs, I) ==
    IF occs = <<>> THEN <<>>
    ELSE Pick(SubSeq(occs, 1, Len(occs) - 1), I)
         \o (IF Len(occs) \in I THEN <<occs[Len(occs)]>> ELSE <<>>)

\* the example of the specification: codes 6111, 6112, 6111, the third record
\* with another text than the first
DedupExample ==
    << Occupation(first_word(L_farmer), raw_title(L_farmer), L_grows),
       Occupation(first_word(L_gardener), raw_title(L_gardener), L_grows),
       Occupation(first_word(L_farmer), raw_title(L_farmer), D_tends) >>

\* C11: deduplicate returns the subsequence of its input made of the first
\* record of every code, in input order, so that every code of the input occurs
\* exactly once; the example gives its first two records; and deduplicate
\* applied again returns the same list.
C11_DedupFirstWins ==
    Called("deduplicate") =>
        /\ ret[1] = Pick(call.arg, FirstSeen(call.arg))
        /\ \A i \in DOMAIN call.arg :
              Cardinality({k \in DOMAIN ret[1] : ret[1][k].nco_code = call.arg[i].nco_code}) = 1
        /\ call.arg = DedupExample => ret[1] = SubSeq(DedupExample, 1, 2)
        /\ Len(ret) > 1 => ret[2] = ret[1]

\* C11 witness: the example was deduplicated twice.
C11_Witness ==
    /\ Called("deduplicate") /\ call.arg = DedupExample
    /\ Len(ret) = 2 /\ Len(ret[1]) = 2

\* C12: clean_text is idempotent: cleaning the text it returned returns that
\* text, also for texts with "Page N" or "Code NNNN Title" between other words.
C12_CleanTextIdempotent ==
    (Called("clean_text") /\ Len(ret) > 1) => ret[2] = ret[1]

\* the words of the lines, in order
TokensOf(lines) == Flatten([i \in DOMAIN lines |-> split(lines[i])])

\* how often x occurs in the sequence q
CountIn(q, x) == Cardinality({i \in DOMAIN q : q[i] = x})

\* the positions of the words of ws that lie left of mid_x (x0 < width / 2)
LeftOf(ws, width) == {i \in DOMAIN ws : 2 * ws[i].x0 < width}

\* C14: split_into_columns puts every word in exactly one column, the left one
\* iff x0 < width / 2: the words of the left lines are the words with
\* x0 < width / 2, each as often as it occurs, and the words of the right lines
\* the others; a page without words gives two empty sequences of lines.
C14_ColumnsPartitionWords ==
    Called("split_into_columns") =>
        LET ws    == call.arg.words
            left  == LeftOf(ws, call.arg.width)
            right == DOMAIN ws \ left
        IN  /\ \A i \in DOMAIN ws :
                  /\ CountIn(TokensOf(ret[1][1]), ws[i].text)
                        = Cardinality({k \in left : ws[k].text = ws[i].text})
                  /\ CountIn(TokensOf(ret[1][2]), ws[i].text)
                        = Cardinality({k \in right : ws[k].text = ws[i].text})
            /\ Len(TokensOf(ret[1][1])) = Cardinality(left)
            /\ Len(TokensOf(ret[1][2])) = Cardinality(right)
            /\ ws = <<>> => ret[1] = << <<>>, <<>> >>

\* C14 witness: a page with a word just left of mid_x and a word at mid_x was
\* split, and each column has one line.
C14_Witness ==
    /\ Called("split_into_columns")
    /\ \E i, j \in DOMAIN call.arg.words :
          /\ 2 * call.arg.words[i].x0 = call.arg.width
          /\ 2 * call.arg.words[j].x0 < call.arg.width
    /\ Len(ret[1][1]) = 1 /\ Len(ret[1][2]) = 1

\* the k-th smallest of the rounded tops of ws
KthKey(ws, k) ==
    LET keys == {round1(ws[i].top) : i \in DOMAIN ws}
    IN  CHOOSE y \in keys : Cardinality({z \in keys : z < y}) = k - 1

\* the tokens are the texts of the words of ws at the positions I, by ascending x0
InOrderOfX0(tokens, ws, I) ==
    \E p \in [DOMAIN tokens -> I] :
        /\ \A i, j \in DOMAIN tokens : i # j => p[i] # p[j]
        /\ \A i, j \in DOMAIN tokens : i < j => ws[p[i]].x0 <= ws[p[j]].x0
        /\ \A i \in DOMAIN tokens : tokens[i] = ws[p[i]].text

\* C15: _words_to_lines gives one line for each rounded top, in ascending order
\* of the rounded tops; the line of a rounded top is made of exactly the words
\* with that rounded top, by ascending x0.
C15_LinesByTopWordsByX0 ==
    Called("words_to_lines") =>
        LET ws == call.arg
        IN  /\ Len(ret[1]) = Cardinality({round1(ws[i].top) : i \in DOMAIN ws})
            /\ \A k \in DOMAIN ret[1] :
                  LET I == {i \in DOMAIN ws : round1(ws[i].top) = KthKey(ws, k)}
                  IN  /\ Len(split(ret[1][k])) = Cardinality(I)
                      /\ InOrderOfX0(split(ret[1][k]), ws, I)

\* C15 witness: three words given out of order, two of them on one line by
\* their rounded tops, came out as two lines.
C15_Witness ==
    /\ Called("words_to_lines")
    /\ Len(call.arg) = 3 /\ Len(ret[1]) = 2
    /\ call.arg[1].top > call.arg[3].top
    /\ \E i, j \in DOMAIN call.arg :
          /\ i < j
          /\ call.arg[i].top # call.arg[j].top
          /\ round1(call.arg[i].top) = round1(call.arg[j].top)
          /\ call.arg[i].x0 > call.arg[j].x0

\* the digits 0 to 9 in order
DigitSeq == <<"0", "1", "2", "3", "4", "5", "6", "7", "8", "9">>

\* the number that the text of digits 0-9 denotes
RECURSIVE NumberOf(_)
NumberOf(s) ==
    IF s = <<>> THEN 0
    ELSE 10 * NumberOf(SubSeq(s, 1, Len(s) - 1))
         + (CHOOSE d \in 0..9 : DigitSeq[d + 1] = s[Len(s)])

\* four digits 0-9, the first of them 1-9, not one of the years 2015 to 2021
IsFourDigitCode(t) ==
    /\ Len(t) = 4
    /\ \A i \in DOMAIN t : \E d \in DOMAIN DigitSeq : DigitSeq[d] = t[i]
    /\ t[1] # "0"
    /\ NumberOf(t) \notin 2015..2021

\* C17: is_valid_nco_code(t) is true iff t consists only of digits, has length
\* 4, its first digit is 1-9 and t is none of the years 2015 to 2021.
C17_ValidCodeIff ==
    Called("is_valid_nco_code") => (ret[1] <=> IsFourDigitCode(call.arg))

\* the text has a character that is not whitespace
NotBlank(t) == \E i \in DOMAIN t : t[i] \notin Whitespace

---------------------------------------------------------------------------
(* Properties of the order of the pipeline.                                 *)

\* the records of all columns assembled so far, in the order of column_log
LogRecords == Flatten([i \in DOMAIN column_log |-> column_log[i].occs])

\* column a comes before column b: by document, then page, then left before right
ColumnBefore(a, b) ==
    \/ a.pdf < b.pdf
    \/ a.pdf = b.pdf /\ a.page < b.page
    \/ a.pdf = b.pdf /\ a.page = b.page /\ a.side = "left" /\ b.side = "right"

\* extract_all and deduplicate have returned
ResultReady == phase \in {"deduplicated", "exported"}

\* C13: the columns are assembled in the order document, page, left before
\* right; the columns of the current document are both columns of each of its
\* pages from the fifth on; and the final result is the list of the first
\* record of every code in the concatenation of the column outputs in that
\* order.
C13_ResultInFixedOrder ==
    /\ \A i, j \in DOMAIN column_log :
          i < j => ColumnBefore(column_log[i], column_log[j])
    /\ phase = "pages" =>
          /\ {<<column_log[i].page, column_log[i].side>> :
                 i \in {k \in DOMAIN column_log : column_log[k].pdf = pdf_index}}
             = (FirstContentPage..page_num) \X {"left", "right"}
          /\ \A i \in DOMAIN column_log :
                column_log[i].pdf = pdf_index =>
                    column_log[i].occs =
                        IF column_log[i].side = "left"
                        THEN PageOut(doc_pages[column_log[i].page]).left_occs
                        ELSE PageOut(doc_pages[column_log[i].page]).right_occs
    /\ ResultReady => self_occupations = Pick(LogRecords, FirstSeen(LogRecords))

\* C13 witness: two documents were read, a code occurred in two columns with
\* different texts, and the result holds the earlier record and not the later.
C13_Witness ==
    /\ ResultReady /\ num_docs = MaxDocs
    /\ \E i, j \in DOMAIN LogRecords :
          /\ i < j
          /\ LogRecords[i].nco_code = LogRecords[j].nco_code
          /\ LogRecords[i] # LogRecords[j]
          /\ \E k \in DOMAIN self_occupations : self_occupations[k] = LogRecords[i]
          /\ \A k \in DOMAIN self_occupations : self_occupations[k] # LogRecords[j]

C18_EmptyResultIsFailure == phase = "exported" => self_occupations # <<>>

---------------------------------------------------------------------------
(* Properties of the scope of the assembler state.                          *)

\* the columns assembled so far of the document that is being read
CurrentColumns == {i \in DOMAIN column_log : column_log[i].pdf = pdf_index}

\* the columns of the page that was assembled last
LastColumns == {i \in CurrentColumns : column_log[i].page = page_num}

\* the side of the column logged at position i, as an index of ColumnLines
SideOf(i) == IF column_log[i].side = "left" THEN 1 ELSE 2

\* the lines that the call logged at position i of column_log was given
LoggedLines(i) == ColumnLines(doc_pages[column_log[i].page])[SideOf(i)]

\* the pairs of a code and a description that a record made of lines alone may
\* have: the code is the first word of a line k, and the description is the
\* join of lines that come after line k
Makeable(lines) ==
    UNION { { << first_word(strip(lines[k])),
                 strip(join(Pick([j \in DOMAIN lines |-> strip(lines[j])], I))) >> :
              I \in SUBSET ((k + 1)..Len(lines)) } :
            k \in DOMAIN lines }

\* Makeable for the two columns of every page of the catalogue
MakeableTable ==
    {<<pg, <<Makeable(ColumnLines(pg)[1]), Makeable(ColumnLines(pg)[2])>>>> : pg \in Pages}

\* Makeable for the column logged at position i of column_log
MakeableAt(i) ==
    (CHOOSE p \in MakeableTable : p[1] = doc_pages[column_log[i].page])[2][SideOf(i)]

\* C21: the assembler state is scoped to one column.  For each column of the
\* page assembled last (so, in the course of a run, for every column): its
\* records depend only on its lines (a column of the document with the same
\* lines gave the same records); every record of it has its code on a line of
\* that column and its description from lines below that line in the same
\* column, so the lines above the first code of a column are skipped and a
\* candidate of an earlier column or page never receives them.
C21_StateScopedToColumn ==
    /\ \A i \in LastColumns :
          \A n \in DOMAIN column_log[i].occs :
              <<column_log[i].occs[n].nco_code, column_log[i].occs[n].description>>
                  \in MakeableAt(i)
    /\ \A i \in LastColumns : \A j \in CurrentColumns :
          LoggedLines(i) = LoggedLines(j) => column_log[i].occs = column_log[j].occs

\* C21 witness: page P_c came right after a column that ended with a candidate:
\* its left column starts with a description line above "6111 Farmer" and gave
\* the one record 6111 without that line; its right column has a description
\* line and no code, and gave no record.
C21_Witness ==
    \E i \in CurrentColumns :
        /\ i > 2 /\ i + 1 \in CurrentColumns
        /\ column_log[i - 1].occs # <<>>
        /\ doc_pages[column_log[i].page] = P_c
        /\ column_log[i].side = "left"
        /\ classify(strip(LoggedLines(i)[1])) = "Description"
        /\ Len(column_log[i].occs) = 1
        /\ column_log[i].occs[1].description = strip(join(SubSeq(LoggedLines(i), 3, 4)))
        /\ LoggedLines(i + 1) # <<>>
        /\ column_log[i + 1].occs = <<>>

---------------------------------------------------------------------------
(* Properties of the alternate script.                                      *)

\* the rows of the CSV below its header line
DataRows == Tail(out_rows)

\* the code is a number of the range 1111..9629
CodeInRange(code) == NumberOf(code) >= 1111 /\ NumberOf(code) <= 9629

\* every written row has a code of the range and a description of at least 30
\* characters, no code is written twice, and the codes ascend
RowsInRangeLongAscending ==
    /\ \A i \in DOMAIN DataRows :
          CodeInRange(DataRows[i][1]) /\ Len(DataRows[i][3]) >= 30
    /\ \A i, j \in DOMAIN DataRows :
          i < j => NumberOf(DataRows[i][1]) < NumberOf(DataRows[j][1])

\* the rows saved for the code, as positions of rows
SavedFor(code) == {k \in DOMAIN rows : rows[k][1] = code}

\* the written row r is the saved row k, with its description cleaned
WrittenFrom(r, k) == r[2] = rows[k][2] /\ r[3] = clean_desc(rows[k][3])

\* a header line whose code is outside 1111..9629 leaves no candidate open; a
\* line read while no candidate is open is attached to nothing; and a row is
\* saved only as the open candidate with the join of its lines
RejectedHeaderOpensNothing ==
    [][ /\ ( /\ num_read' = num_read + 1
             /\ HEADER_RE(last_read')
             /\ ~CodeInRange(SubSeq(last_read', 1, 4)) )
           => (current_code' = None /\ current_desc' = <<>>)
        /\ ( /\ num_read' = num_read + 1
             /\ ~HEADER_RE(last_read')
             /\ current_code = None )
           => (current_code' = None /\ current_desc' = <<>> /\ rows' = rows)
        /\ rows' # rows
           => ( /\ current_code # None
                /\ rows' = Append(rows, <<current_code, current_title,
                                          join(current_desc)>>) ) ]_vars

\* C23 as stated: every written row has a code in 1111..9629 and a cleaned
\* description of at least 30 characters, each code is in at most one row, the
\* row kept for a code is the first row saved for it, the rows ascend by code,
\* and a header line whose code is outside the range opens no candidate.
C23_FirstSavedRowKept ==
    /\ [](step = "saved" =>
            /\ RowsInRangeLongAscending
            /\ \A i \in DOMAIN DataRows :
                  /\ SavedFor(DataRows[i][1]) # {}
                  /\ WrittenFrom(DataRows[i], Min(SavedFor(DataRows[i][1]))))
    /\ RejectedHeaderOpensNothing

\* the rows saved for the code whose cleaned description has 30 characters or more
KeptFor(code) == {k \in SavedFor(code) : Len(clean_desc(rows[k][3])) >= 30}

\* C23: every written row has a code in 1111..9629 and a cleaned description
\* of at least 30 characters, each code is in at most one row, the row kept for
\* a code is the first row saved for it whose cleaned description has at least
\* 30 characters, the rows ascend by code, and a header line whose code is
\* outside the range opens no candidate.
C23_FirstLongRowKept ==
    /\ [](step = "saved" =>
            /\ RowsInRangeLongAscending
            /\ \A i \in DOMAIN DataRows :
                  /\ KeptFor(DataRows[i][1]) # {}
                  /\ WrittenFrom(DataRows[i], Min(KeptFor(DataRows[i][1]))))
    /\ RejectedHeaderOpensNothing

\* C23 witness: code 6111 was saved twice, first as "Farmer" with the short
\* description "Tends plants", then as "Crop Grower" with a long one; the CSV
\* has the second.
C23_Witness ==
    /\ step = "saved"
    /\ Len(rows) = 2
    /\ rows[1] = <<SubSeq(A_farmer, 1, 4), SubSeq(A_farmer, 6, Len(A_farmer)), A_tends>>
    /\ rows[2][1] = rows[1][1]
    /\ rows[2][2] # rows[1][2]
    /\ Len(DataRows) = 1
    /\ DataRows[1] = <<rows[2][1], rows[2][2], clean_desc(rows[2][3])>>

---------------------------------------------------------------------------
(* Properties of the records of the result.                                 *)

\* C24: every record that the assembler returns, and so every record of the
\* result of extract_all and deduplicate, which is made of such records, has a
\* code of exactly 4 digits whose first digit is not 0 and which is none of
\* the years 2015 to 2021.
C24_ResultCodesWellFormed ==
    \A i \in DOMAIN occupations : IsFourDigitCode(occupations[i].nco_code)

\* C25: every data row that export_to_csv writes still meets the validity
\* thresholds after the cleaning: there is one row for each record, its title
\* is longer than 3, its description is longer than 20, and the written fields
\* satisfy is_valid.
C25_WrittenRowsStillValid ==
    Called("export_to_csv") =>
        /\ Len(ret[1]) = Len(call.arg) + 1
        /\ \A i \in 2..Len(ret[1]) :
              /\ Len(ret[1][i][2]) > 3
              /\ Len(ret[1][i][3]) > 20
              /\ is_valid(Occupation(ret[1][i][1], ret[1][i][2], ret[1][i][3]))

====
